---- MODULE Spec2Model ----
(***************************************************************************)
(* A model of pytest-mergify's flaky detection and session span.           *)
(*                                                                         *)
(*   - FlakyDetector (pytest_mergify/flaky_detection.py): the per-test     *)
(*     metrics, the retry target computation, the deadlines and the        *)
(*     suspension of the higher-scope fixture finalizers.                  *)
(*   - MergifyCIInsights (pytest_mergify/ci_insights.py): the session-end  *)
(*     retry loop run_flaky_detection and its report handler.              *)
(*   - PytestMergify (pytest_mergify/__init__.py): the session span and    *)
(*     its status.                                                         *)
(*                                                                         *)
(* Time is counted in microseconds, the resolution of datetime.timedelta.  *)
(* The host (pytest) is the environment: it calls the detector's methods   *)
(* in any order, with any report, and lets the clock advance between two   *)
(* calls.  The methods that only read the state (is_test_tracked,          *)
(* should_abort_reruns, make_report, ...) are operators over the state;    *)
(* log_messages, a write-only diagnostic list, is left out.                *)
(***************************************************************************)
EXTENDS Integers, Sequences, FiniteSets, TLC

VARIABLES
    tracer,                     \* PytestMergify.tracer is not None
    has_error,                  \* PytestMergify.has_error
    session_span,               \* PytestMergify.session_span
    test_span,                  \* opentelemetry.trace.get_current_span()
    session_phase,              \* where pytest is in the session
    logreports,                 \* the reports pytest has sent to pytest_runtest_logreport
    mode,                       \* FlakyDetector.mode
    _context,                   \* FlakyDetector._context
    now,                        \* datetime.datetime.now(datetime.timezone.utc)
    _global_deadline,           \* FlakyDetector._global_deadline
    _test_metrics,              \* FlakyDetector._test_metrics
    _over_length_tests,         \* FlakyDetector._over_length_tests
    call,                       \* the last method call: its name, its test, what it returned
    stack,                      \* item.session._setupstate.stack (pytest)
    _suspended_item_finalizers, \* FlakyDetector._suspended_item_finalizers
    setups,                     \* how many times pytest has set each node up
    teardowns,                  \* the finalizer lists pytest has run, in order
    _flaky_detection_enabled,   \* MergifyCIInsights._is_flaky_detection_enabled()
    _flaky_detection_error_message, \* MergifyCIInsights._flaky_detection_error_message
    _existing_test_names,       \* MergifyCIInsights._existing_test_names
    _total_test_durations_ms,   \* MergifyCIInsights._total_test_durations_ms
    _new_test_durations_by_name,    \* MergifyCIInsights._new_test_durations_by_name
    _new_test_retry_count_by_name,  \* MergifyCIInsights._new_test_retry_count_by_name
    now_ms,                     \* the clock of the session, in milliseconds
    pc,                         \* where the session and run_flaky_detection are
    next_item,                  \* the session item pytest runs next
    new_items,                  \* run_flaky_detection: new_items
    budget_deadline,            \* run_flaky_detection: budget_deadline
    items_to_retry,             \* run_flaky_detection: what is left of items_to_retry
    executions                  \* the pytest_runtest_protocol calls, per item

detector_vars ==
    <<mode, _context, now, _global_deadline, _test_metrics, _over_length_tests>>

finalizer_vars == <<stack, _suspended_item_finalizers, setups, teardowns>>

insights_vars ==
    <<_flaky_detection_enabled, _flaky_detection_error_message, _existing_test_names,
      _total_test_durations_ms, _new_test_durations_by_name,
      _new_test_retry_count_by_name, now_ms, pc, next_item, new_items,
      budget_deadline, items_to_retry, executions>>

plugin_vars ==
    <<tracer, has_error, session_span, test_span, session_phase, logreports>>

vars == <<detector_vars, call, finalizer_vars, insights_vars, plugin_vars>>

-----------------------------------------------------------------------------
(* Bounds of the model.                                                    *)

\* The clock and the report durations are multiples of TimeStep microseconds.
TimeStep == 500
\* The clock stops after MaxTicks steps.
MaxTicks == 2
\* A report lasts at most MaxDurationSteps time steps.
MaxDurationSteps == 1
\* No test is reported in its call phase more than MaxRerunCount times.
MaxRerunCount == 1
\* No test is recorded in its call phase more than MaxCallReports times.
MaxLogReports == 3

MaxCallReports == 2
\* No test accumulates more than MaxTotalSteps time steps of reports.
MaxTotalSteps == 1
\* No test accumulates more than MaxTotalDuration microseconds of reports.
MaxTotalDuration == 1000000

-----------------------------------------------------------------------------
(* Values.                                                                 *)

\* typing.Optional: the absent value of a deadline or of a timeout.
None == -1

\* One millisecond, in microseconds: datetime.timedelta(milliseconds=...).
MillisecondUs == 1000

\* The node ids the session may report: their lengths are 1, 2 and 3.
Tests == {"a", "bb", "ccc"}

Outcomes == {"passed", "failed", "rerun", "skipped"}

Whens == {"setup", "call", "teardown"}

Durations == {k * TimeStep : k \in 0..MaxDurationSteps}

\* _pytest.reports.TestReport: nodeid, outcome, when, duration.
Reports ==
    [nodeid : Tests, outcome : Outcomes, when : Whens, duration : Durations]

\* The members of a list.
Range(s) == {s[i] : i \in 1..Len(s)}

\* [x for x in s if x in keep]
RECURSIVE FilterSeq(_, _)
FilterSeq(s, keep) ==
    IF s = <<>> THEN <<>>
    ELSE IF Head(s) \in keep
         THEN <<Head(s)>> \o FilterSeq(Tail(s), keep)
         ELSE FilterSeq(Tail(s), keep)

Min(a, b) == IF a <= b THEN a ELSE b

Max(a, b) == IF a >= b THEN a ELSE b

\* n / d rounded to the nearest integer, a tie to the even one: how timedelta
\* rounds a division or a product to its microsecond resolution (n >= 0, d > 0).
RoundHalfEven(n, d) ==
    LET q == n \div d
        r == n % d
    IN IF 2 * r < d THEN q
       ELSE IF 2 * r > d THEN q + 1
       ELSE IF q % 2 = 0 THEN q ELSE q + 1

-----------------------------------------------------------------------------
(* _FlakyDetectionContext, as the server returns it.  A ratio is a pair    *)
(* <<numerator, denominator>>.                                             *)

\* _FlakyDetectionContext(**response.json())
FlakyDetectionContext(rn, ru, e, mean, u, maxc, len, mb, minc) ==
    [budget_ratio_for_new_tests |-> rn,
     budget_ratio_for_unhealthy_tests |-> ru,
     existing_test_names |-> e,
     existing_tests_mean_duration_ms |-> mean,
     unhealthy_test_names |-> u,
     max_test_execution_count |-> maxc,
     max_test_name_length |-> len,
     min_budget_duration_ms |-> mb,
     min_test_execution_count |-> minc]

\* <<min_test_execution_count, max_test_execution_count>>: the server sends
\* both, and nothing in the detector orders them.
ExecutionCounts == {<<1, 2>>, <<2, 3>>, <<2, 1>>}

\* The contexts of the allocation runs: one existing test of 1000
\* microseconds and two unhealthy ones, so that the budget is 500 microseconds
\* in mode "new" and 1000 in mode "unhealthy".
AllocationContexts ==
    {FlakyDetectionContext(<<1, 2>>, <<1, 1>>, <<"a">>, 1, <<"bb", "ccc">>,
                           mm[2], 3, 0, mm[1]) :
        mm \in ExecutionCounts}

\* The contexts of the tracking runs: the baseline and the name limit vary.
TrackingContexts ==
    {FlakyDetectionContext(<<1, 2>>, <<1, 2>>, e, 1, u, 2, len, 1, 1) :
        e \in {<<>>, <<"a">>, <<"a", "bb">>}, u \in {<<>>, <<"bb", "ccc">>},
        len \in {2, 3}}

\* The contexts of the scenarios of the tests: a budget that is its floor of
\* 4 s, 500 ms or 30 s, at least 5 or 1 and at most 1000 executions, and a
\* baseline of 1, 2, 4 or 5 tests.
ScenarioBaselines ==
    {<<"e1">>, <<"e1", "e2">>, <<"e1", "e2", "e3", "e4">>,
     <<"e1", "e2", "e3", "e4", "e5">>}

\* The initial durations, in microseconds, of the tests of a scenario.
ScenarioDurations(c) ==
    IF c.min_budget_duration_ms = 4000
    THEN [t \in {"a", "bb", "ccc"} |->
             IF t = "a" THEN 1000 ELSE IF t = "bb" THEN 100000 ELSE 10000]
    ELSE IF c.min_budget_duration_ms = 500
    THEN [t \in {"a", "bb"} |-> IF t = "a" THEN 1000 ELSE 1000000]
    ELSE [t \in {"a", "bb", "ccc", "dddd"} |-> Len(t) * 10000]

\* The unhealthy tests are the tests of the scenario.
ScenarioContexts ==
    {FlakyDetectionContext(<<0, 1>>, <<0, 1>>, e, 0, mm[3], 1000, 4, mm[1], mm[2]) :
        e \in ScenarioBaselines,
        mm \in {<<4000, 5, <<"a", "bb", "ccc">> >>,
                <<500, 5, <<"a", "bb">> >>,
                <<30000, 1, <<"a", "bb", "ccc", "dddd">> >>}}

\* The contexts of the runs that compare the two modes: the two ratios and
\* the unhealthy tests vary, one existing test of 1000 microseconds.
ModeRatios == {<<1, 2>>, <<1, 1>>}

ModeContexts ==
    {FlakyDetectionContext(rn, ru, <<"a">>, 1, u, 2, 3, 0, 1) :
        rn \in ModeRatios, ru \in ModeRatios,
        u \in {<<"bb">>, <<"bb", "ccc">>}}

existing_tests_mean_duration(c) == c.existing_tests_mean_duration_ms * MillisecondUs

min_budget_duration(c) == c.min_budget_duration_ms * MillisecondUs

-----------------------------------------------------------------------------
(* _TestMetrics.                                                           *)

DefaultTestMetrics ==
    [initial_setup_duration |-> 0,
     initial_call_duration |-> 0,
     initial_teardown_duration |-> 0,
     is_processed |-> FALSE,
     rerun_count |-> 0,
     scheduled_rerun_count |-> 0,
     deadline |-> None,
     prevented_timeout |-> FALSE,
     total_duration |-> 0]

\* A variant that leaves the setup and the teardown out.
initial_duration_CallOnly(m) == m.initial_call_duration

initial_duration(m) ==
    m.initial_setup_duration + m.initial_call_duration + m.initial_teardown_duration

\* A variant that keeps the duration of the last report only.
fill_from_report_LastDuration(m, report) ==
    LET m1 == IF report.when = "setup" /\ m.initial_setup_duration = 0
              THEN [m EXCEPT !.initial_setup_duration = report.duration]
              ELSE IF report.when = "call" /\ m.initial_call_duration = 0
              THEN [m EXCEPT !.initial_call_duration = report.duration]
              ELSE IF report.when = "teardown" /\ m.initial_teardown_duration = 0
              THEN [m EXCEPT !.initial_teardown_duration = report.duration]
              ELSE m
        m2 == IF report.when = "call"
              THEN [m1 EXCEPT !.rerun_count = @ + 1]
              ELSE m1
    IN [m2 EXCEPT !.total_duration = report.duration]

fill_from_report(m, report) ==
    LET m1 == IF report.when = "setup" /\ m.initial_setup_duration = 0
              THEN [m EXCEPT !.initial_setup_duration = report.duration]
              ELSE IF report.when = "call" /\ m.initial_call_duration = 0
              THEN [m EXCEPT !.initial_call_duration = report.duration]
              ELSE IF report.when = "teardown" /\ m.initial_teardown_duration = 0
              THEN [m EXCEPT !.initial_teardown_duration = report.duration]
              ELSE m
        m2 == IF report.when = "call"
              THEN [m1 EXCEPT !.rerun_count = @ + 1]
              ELSE m1
    IN [m2 EXCEPT !.total_duration = @ + report.duration]

expected_duration(m) == initial_duration(m) * m.scheduled_rerun_count

\* dict.setdefault(test, _TestMetrics()) followed by an update of the entry.
WithMetrics(metrics, test, m) ==
    [t \in DOMAIN metrics \cup {test} |-> IF t = test THEN m ELSE metrics[t]]

-----------------------------------------------------------------------------
(* FlakyDetector: the methods that only read the state.                    *)

is_test_tracked(test) == test \in DOMAIN _test_metrics

\* A variant without the floor of one remaining test.
_count_remaining_tests_NoFloor ==
    LET tests == IF mode = "new"
                 THEN _context.existing_test_names
                 ELSE _context.unhealthy_test_names
        already_processed_tests ==
            {t \in DOMAIN _test_metrics : _test_metrics[t].is_processed}
    IN Len(tests) - Cardinality(already_processed_tests)

_count_remaining_tests ==
    LET tests == IF mode = "new"
                 THEN _context.existing_test_names
                 ELSE _context.unhealthy_test_names
        already_processed_tests ==
            {t \in DOMAIN _test_metrics : _test_metrics[t].is_processed}
    IN Max(Len(tests) - Cardinality(already_processed_tests), 1)

\* A variant with one ratio for the two modes.
_get_budget_duration_OneRatio ==
    LET total_duration ==
            existing_tests_mean_duration(_context) * Len(_context.existing_test_names)
        ratio == _context.budget_ratio_for_unhealthy_tests
    IN Max(RoundHalfEven(ratio[1] * total_duration, ratio[2]),
           min_budget_duration(_context))

_get_budget_duration ==
    LET total_duration ==
            existing_tests_mean_duration(_context) * Len(_context.existing_test_names)
        ratio == IF mode = "new"
                 THEN _context.budget_ratio_for_new_tests
                 ELSE _context.budget_ratio_for_unhealthy_tests
    IN Max(RoundHalfEven(ratio[1] * total_duration, ratio[2]),
           min_budget_duration(_context))

\* A variant without the floor at zero: a deadline that has passed gives a
\* negative duration.
_get_duration_before_test_deadline_Signed(test) ==
    LET metrics == _test_metrics[test]
    IN IF metrics.deadline = None
       THEN 0
       ELSE metrics.deadline - now

\* A variant that takes the whole budget when the test has no deadline.
_get_duration_before_test_deadline_NoDeadline(test) ==
    LET metrics == _test_metrics[test]
    IN IF metrics.deadline = None
       THEN _get_budget_duration
       ELSE Max(metrics.deadline - now, 0)

_get_duration_before_test_deadline(test) ==
    LET metrics == _test_metrics[test]
    IN IF metrics.deadline = None
       THEN 0
       ELSE Max(metrics.deadline - now, 0)

\* A variant without the floor: a count under the minimum is kept.
_get_normalized_rerun_count_NoFloor(budget_per_test, duration) ==
    LET count == IF duration = 0
                 THEN _context.max_test_execution_count
                 ELSE budget_per_test \div duration
    IN Min(count, _context.max_test_execution_count)

\* A variant that rounds the count up: the last retry overruns the share.
_get_normalized_rerun_count_RoundUp(budget_per_test, duration) ==
    LET count == IF duration = 0
                 THEN _context.max_test_execution_count
                 ELSE (budget_per_test + duration - 1) \div duration
        result == Min(count, _context.max_test_execution_count)
    IN IF result < _context.min_test_execution_count THEN 0 ELSE result

\* A variant that gives a test of no duration the minimum.
_get_normalized_rerun_count_ZeroMin(budget_per_test, duration) ==
    LET count == IF duration = 0
                 THEN _context.min_test_execution_count
                 ELSE budget_per_test \div duration
        result == Min(count, _context.max_test_execution_count)
    IN IF result < _context.min_test_execution_count THEN 0 ELSE result

_get_normalized_rerun_count(budget_per_test, duration) ==
    LET count == IF duration = 0
                 THEN _context.max_test_execution_count
                 ELSE budget_per_test \div duration
        result == Min(count, _context.max_test_execution_count)
    IN IF result < _context.min_test_execution_count THEN 0 ELSE result

\* A variant that aborts only once the projected completion is past the deadline.
should_abort_reruns_Strict(test) ==
    IF test \notin DOMAIN _test_metrics \/ _test_metrics[test].deadline = None
    THEN FALSE
    ELSE now + initial_duration(_test_metrics[test]) > _test_metrics[test].deadline

should_abort_reruns(test) ==
    IF test \notin DOMAIN _test_metrics \/ _test_metrics[test].deadline = None
    THEN FALSE
    ELSE now + initial_duration(_test_metrics[test]) >= _test_metrics[test].deadline

\* The sum of the total durations of the tracked tests.
RECURSIVE total_rerun_duration(_)
total_rerun_duration(tests) ==
    IF tests = {} THEN 0
    ELSE LET test == CHOOSE t \in tests : TRUE
         IN _test_metrics[test].total_duration + total_rerun_duration(tests \ {test})

\* A variant that reports a test as cut short when it has run as often as
\* scheduled.
ActiveLine_CutShortAtTarget(test) ==
    LET metrics == _test_metrics[test]
    IN IF metrics.scheduled_rerun_count = 0
       THEN [test |-> test, line |-> "is too slow",
             count |-> _context.min_test_execution_count]
       ELSE IF metrics.rerun_count <= metrics.scheduled_rerun_count
       THEN [test |-> test, line |-> "has been tested only",
             count |-> metrics.rerun_count]
       ELSE [test |-> test, line |-> "has been tested",
             count |-> metrics.rerun_count]

\* The line of the 'Active' section for a tracked test.
ActiveLine(test) ==
    LET metrics == _test_metrics[test]
    IN IF metrics.scheduled_rerun_count = 0
       THEN [test |-> test, line |-> "is too slow",
             count |-> _context.min_test_execution_count]
       ELSE IF metrics.rerun_count < metrics.scheduled_rerun_count
       THEN [test |-> test, line |-> "has been tested only",
             count |-> metrics.rerun_count]
       ELSE [test |-> test, line |-> "has been tested",
             count |-> metrics.rerun_count]

\* make_report divides by the budget duration once a test is tracked: a
\* budget of zero raises ZeroDivisionError.
make_report_raises ==
    DOMAIN _test_metrics # {} /\ _get_budget_duration = 0

\* make_report: the sections of the text, each one the set of its lines.
make_report ==
    IF DOMAIN _test_metrics = {}
    THEN [Skipped |-> _over_length_tests,
          limit |-> _context.max_test_name_length,
          NoTests |-> TRUE, Used |-> <<>>, Active |-> {}, Reduced |-> {}]
    ELSE [Skipped |-> _over_length_tests,
          limit |-> _context.max_test_name_length,
          NoTests |-> FALSE,
          Used |-> <<total_rerun_duration(DOMAIN _test_metrics), _get_budget_duration>>,
          Active |-> {ActiveLine(test) : test \in DOMAIN _test_metrics},
          Reduced |-> {test \in DOMAIN _test_metrics :
                          _test_metrics[test].prevented_timeout}]

-----------------------------------------------------------------------------
(* FlakyDetector: the methods that change the state.                       *)

\* __post_init__ and _fetch_context: mode "new" with no existing test raises,
\* and no detector is built.
InitDetector ==
    /\ mode \in {"new", "unhealthy"}
    /\ _context \in AllocationContexts \cup TrackingContexts \cup ScenarioContexts
                      \cup ModeContexts
    /\ ~(mode = "new" /\ Len(_context.existing_test_names) = 0)
    /\ now = 0
    /\ _global_deadline = None
    /\ _test_metrics = <<>>
    /\ _over_length_tests = {}

\* A variant that only looks at the unhealthy tests.
IsEligible_UnhealthyOnly(test) ==
    ~(mode = "unhealthy" /\ test \notin Range(_context.unhealthy_test_names))

\* A variant that only looks at the existing tests.
IsEligible_NewOnly(test) ==
    ~(mode = "new" /\ test \in Range(_context.existing_test_names))

\* What the mode guards of try_fill_metrics_from_report let through.
IsEligible(test) ==
    /\ ~(mode = "new" /\ test \in Range(_context.existing_test_names))
    /\ ~(mode = "unhealthy" /\ test \notin Range(_context.unhealthy_test_names))

\* A variant that lets one more character through.
IsOverLength_OffByOne(test) == Len(test) > _context.max_test_name_length + 1

\* len(test) > self._context.max_test_name_length
IsOverLength(test) == Len(test) > _context.max_test_name_length

\* The record of a call of try_fill_metrics_from_report.
Returned(report, result) ==
    [op |-> "try_fill_metrics_from_report", test |-> report.nodeid,
     result |-> result, report |-> report]

\* The number of call-phase reports of the test once the report is recorded.
RerunCountWith(report) ==
    LET test == report.nodeid
        old == IF test \in DOMAIN _test_metrics
               THEN _test_metrics[test] ELSE DefaultTestMetrics
    IN fill_from_report(old, report).rerun_count

\* The total duration of the test once the report is recorded.
TotalDurationWith(report) ==
    LET test == report.nodeid
        old == IF test \in DOMAIN _test_metrics
               THEN _test_metrics[test] ELSE DefaultTestMetrics
    IN fill_from_report(old, report).total_duration

try_fill_metrics_from_report(report) ==
    LET test == report.nodeid
        old == IF test \in DOMAIN _test_metrics
               THEN _test_metrics[test] ELSE DefaultTestMetrics
        new == fill_from_report(old, report)
    IN /\ new.rerun_count <= MaxCallReports
       /\ new.total_duration <= MaxTotalDuration
       /\ IF report.outcome \notin {"failed", "passed", "rerun"}
          THEN /\ call' = Returned(report, FALSE)
               /\ UNCHANGED <<_test_metrics, _over_length_tests>>
          ELSE IF ~IsEligible(test)
          THEN /\ call' = Returned(report, FALSE)
               /\ UNCHANGED <<_test_metrics, _over_length_tests>>
          ELSE IF IsOverLength(test)
          THEN /\ _over_length_tests' = _over_length_tests \cup {test}
               /\ call' = Returned(report, FALSE)
               /\ UNCHANGED _test_metrics
          ELSE /\ _test_metrics' = WithMetrics(_test_metrics, test, new)
               /\ call' = Returned(report, TRUE)
               /\ UNCHANGED _over_length_tests
       /\ UNCHANGED <<plugin_vars, finalizer_vars, insights_vars, mode, _context, now, _global_deadline>>

\* A variant that filters the baseline and leaves the unhealthy tests alone.
filter_context_tests_with_session_ExistingOnly(items) ==
    /\ _context' = [_context EXCEPT
           !.existing_test_names = FilterSeq(@, items)]
    /\ call' = [op |-> "filter_context_tests_with_session", test |-> "",
                result |-> "None", items |-> items]
    /\ UNCHANGED <<plugin_vars, finalizer_vars, insights_vars, mode, now, _global_deadline, _test_metrics, _over_length_tests>>

filter_context_tests_with_session(items) ==
    /\ _context' = [_context EXCEPT
           !.existing_test_names = FilterSeq(@, items),
           !.unhealthy_test_names = FilterSeq(@, items)]
    /\ call' = [op |-> "filter_context_tests_with_session", test |-> "",
                result |-> "None", items |-> items]
    /\ UNCHANGED <<plugin_vars, finalizer_vars, insights_vars, mode, now, _global_deadline, _test_metrics, _over_length_tests>>

get_rerun_count_for_test(test) ==
    /\ IF test \notin DOMAIN _test_metrics
       THEN /\ call' = [op |-> "get_rerun_count_for_test", test |-> test,
                        result |-> 0]
            /\ UNCHANGED _test_metrics
       ELSE LET budget_per_test ==
                    RoundHalfEven(_get_duration_before_test_deadline(test),
                                  _count_remaining_tests)
                result == _get_normalized_rerun_count(
                              budget_per_test,
                              initial_duration(_test_metrics[test]))
            IN /\ _test_metrics' = [_test_metrics EXCEPT
                       ![test].is_processed = TRUE,
                       ![test].scheduled_rerun_count = result]
               /\ call' = [op |-> "get_rerun_count_for_test", test |-> test,
                           result |-> result]
    /\ UNCHANGED <<plugin_vars, finalizer_vars, insights_vars, mode, _context, now, _global_deadline, _over_length_tests>>

\* A variant that leaves the initial execution out of the count.
is_last_rerun_for_test_NoInitial(test) ==
    LET result == /\ test \in DOMAIN _test_metrics
                  /\ _test_metrics[test].scheduled_rerun_count # 0
                  /\ _test_metrics[test].scheduled_rerun_count
                         = _test_metrics[test].rerun_count
    IN /\ call' = [op |-> "is_last_rerun_for_test", test |-> test,
                   result |-> result]
       /\ UNCHANGED <<plugin_vars, finalizer_vars, insights_vars, detector_vars>>

is_last_rerun_for_test(test) ==
    LET result == IF test \notin DOMAIN _test_metrics
                  THEN FALSE
                  ELSE /\ _test_metrics[test].scheduled_rerun_count # 0
                       /\ _test_metrics[test].scheduled_rerun_count + 1
                              = _test_metrics[test].rerun_count
    IN /\ call' = [op |-> "is_last_rerun_for_test", test |-> test,
                   result |-> result]
       /\ UNCHANGED <<plugin_vars, finalizer_vars, insights_vars, detector_vars>>

set_global_deadline ==
    /\ _global_deadline' = now + _get_budget_duration
    /\ call' = [op |-> "set_global_deadline", test |-> "", result |-> "None"]
    /\ UNCHANGED <<plugin_vars, finalizer_vars, insights_vars, mode, _context, now, _test_metrics, _over_length_tests>>

\* The timeouts pytest-timeout may report for an item, None when it reports none.
Timeouts == {None, 0, TimeStep, 4 * TimeStep}

\* A variant without the margin of 10 %.
set_test_deadline_NoMargin(test, timeout) ==
    /\ IF test \notin DOMAIN _test_metrics
       THEN UNCHANGED _test_metrics
       ELSE LET m1 == [_test_metrics[test] EXCEPT !.deadline = _global_deadline]
                timeout_deadline == now + timeout
                m2 == IF timeout = None \/ timeout = 0
                      THEN m1
                      ELSE IF m1.deadline = None \/ timeout_deadline < m1.deadline
                      THEN [m1 EXCEPT !.deadline = timeout_deadline,
                                      !.prevented_timeout = TRUE]
                      ELSE m1
            IN _test_metrics' = [_test_metrics EXCEPT ![test] = m2]
    /\ call' = [op |-> "set_test_deadline", test |-> test, result |-> "None",
                timeout |-> timeout]
    /\ UNCHANGED <<plugin_vars, finalizer_vars, insights_vars, mode, _context, now, _global_deadline, _over_length_tests>>

set_test_deadline(test, timeout) ==
    /\ IF test \notin DOMAIN _test_metrics
       THEN UNCHANGED _test_metrics
       ELSE LET m1 == [_test_metrics[test] EXCEPT !.deadline = _global_deadline]
                safe_timeout == RoundHalfEven(timeout * 9, 10)
                timeout_deadline == now + safe_timeout
                m2 == IF timeout = None \/ timeout = 0
                      THEN m1
                      ELSE IF m1.deadline = None \/ timeout_deadline < m1.deadline
                      THEN [m1 EXCEPT !.deadline = timeout_deadline,
                                      !.prevented_timeout = TRUE]
                      ELSE m1
            IN _test_metrics' = [_test_metrics EXCEPT ![test] = m2]
    /\ call' = [op |-> "set_test_deadline", test |-> test, result |-> "None",
                timeout |-> timeout]
    /\ UNCHANGED <<plugin_vars, finalizer_vars, insights_vars, mode, _context, now, _global_deadline, _over_length_tests>>

\* The clock advances between two calls.
Tick ==
    /\ now < MaxTicks * TimeStep
    /\ now' = now + TimeStep
    /\ call' = [op |-> "", test |-> "", result |-> "None"]
    /\ UNCHANGED <<plugin_vars, finalizer_vars, insights_vars, mode, _context, _global_deadline, _test_metrics, _over_length_tests>>

\* The reruns of the test whose target has just been computed run, each as
\* long as its initial execution.
RunReruns ==
    /\ call.op = "get_rerun_count_for_test"
    /\ call.test \in DOMAIN _test_metrics
    /\ expected_duration(_test_metrics[call.test]) > 0
    /\ now' = now + expected_duration(_test_metrics[call.test])
    /\ call' = [op |-> "", test |-> "", result |-> "None"]
    /\ UNCHANGED <<plugin_vars, finalizer_vars, insights_vars, mode, _context, _global_deadline, _test_metrics, _over_length_tests>>

-----------------------------------------------------------------------------
(* FlakyDetector: the fixture finalizers.  pytest keeps, for every node    *)
(* it has set up, the finalizers to run at its teardown, in a dict ordered *)
(* from the session down to the item.  A dict is a sequence of             *)
(* [node, finalizers] pairs with distinct nodes; a finalizer list is named *)
(* <<node, n>>, the list of the n-th setup of the node.                    *)

\* pytest sets a node up at most MaxSetups times.
MaxSetups == 3

\* item.listchain(): the session, the module, the class, the item.
Chain == <<"session", "module", "class", "item">>

Item == "item"

Keys(d) == {d[i].node : i \in 1..Len(d)}

KeyList(d) == [i \in 1..Len(d) |-> d[i].node]

\* d[k] = v
DictSet(d, k, v) ==
    IF k \in Keys(d)
    THEN [i \in 1..Len(d) |-> IF d[i].node = k THEN [node |-> k, finalizers |-> v]
                                                ELSE d[i]]
    ELSE Append(d, [node |-> k, finalizers |-> v])

\* d.update(u)
RECURSIVE DictUpdate(_, _)
DictUpdate(d, u) ==
    IF u = <<>> THEN d
    ELSE DictUpdate(DictSet(d, Head(u).node, Head(u).finalizers), Tail(u))

\* The prefix of a sequence.
Prefix(s, n) == [i \in 1..Min(n, Len(s)) |-> s[i]]

\* SetupState.setup(item): push the nodes of the chain the stack lacks.
RECURSIVE PushAll(_, _, _)
PushAll(d, nodes, count) ==
    IF nodes = <<>> THEN d
    ELSE PushAll(Append(d, [node |-> Head(nodes),
                            finalizers |-> <<Head(nodes), count[Head(nodes)] + 1>>]),
                 Tail(nodes), count)

pytest_setup ==
    LET missing == SubSeq(Chain, Len(stack) + 1, Len(Chain))
    IN /\ Keys(stack) \subseteq Range(Chain)
       /\ Range(missing) \cap Keys(stack) = {}
       /\ missing # <<>>
       /\ \A n \in Range(missing) : setups[n] < MaxSetups
       /\ stack' = PushAll(stack, missing, setups)
       /\ setups' = [n \in DOMAIN setups |->
                        IF n \in Range(missing) THEN setups[n] + 1 ELSE setups[n]]
       /\ call' = [op |-> "pytest_setup", test |-> Item, result |-> "None"]
       /\ UNCHANGED <<_suspended_item_finalizers, teardowns>>
       /\ UNCHANGED <<detector_vars, insights_vars, plugin_vars>>

\* SetupState.teardown_exact(nextitem): pop, and run, what the next item
\* does not need.
RECURSIVE PopUntil(_, _)
PopUntil(d, needed) ==
    IF d = <<>> \/ KeyList(d) = Prefix(needed, Len(d)) THEN d
    ELSE PopUntil(SubSeq(d, 1, Len(d) - 1), needed)

RECURSIVE Reversed(_)
Reversed(s) == IF s = <<>> THEN <<>> ELSE Append(Reversed(Tail(s)), Head(s))

pytest_teardown_exact(needed) ==
    LET kept == PopUntil(stack, needed)
        popped == SubSeq(stack, Len(kept) + 1, Len(stack))
    IN /\ popped # <<>>
       /\ stack' = kept
       /\ teardowns' = teardowns \o
              [i \in 1..Len(popped) |-> Reversed(popped)[i].finalizers]
       /\ call' = [op |-> "pytest_teardown_exact", test |-> Item, result |-> "None"]
       /\ UNCHANGED <<_suspended_item_finalizers, setups>>
       /\ UNCHANGED <<detector_vars, insights_vars, plugin_vars>>

\* The stacked nodes suspend_item_finalizers stores: not the item, and not a
\* node it already holds.
NewlySuspended(item) ==
    SelectSeq(stack, LAMBDA e : e.node # item
                                /\ e.node \notin Keys(_suspended_item_finalizers))

\* A variant without the check that the item is on the stack.
suspend_item_finalizers_Unchecked(item) ==
    /\ _suspended_item_finalizers' =
           _suspended_item_finalizers \o NewlySuspended(item)
    /\ stack' = SelectSeq(stack, LAMBDA e : e.node = item)
    /\ call' = [op |-> "suspend_item_finalizers", test |-> item, result |-> "None"]
    /\ UNCHANGED <<setups, teardowns>>
    /\ UNCHANGED <<detector_vars, insights_vars, plugin_vars>>

suspend_item_finalizers(item) ==
    /\ IF item \notin Keys(stack)
       THEN UNCHANGED <<stack, _suspended_item_finalizers>>
       ELSE /\ _suspended_item_finalizers' =
                   _suspended_item_finalizers \o NewlySuspended(item)
            /\ stack' = SelectSeq(stack, LAMBDA e : e.node = item)
    /\ call' = [op |-> "suspend_item_finalizers", test |-> item, result |-> "None"]
    /\ UNCHANGED <<setups, teardowns>>
    /\ UNCHANGED <<detector_vars, insights_vars, plugin_vars>>

\* A variant that forgets to empty the store.
restore_item_finalizers_NoClear(item) ==
    /\ stack' = DictUpdate(stack, _suspended_item_finalizers)
    /\ call' = [op |-> "restore_item_finalizers", test |-> item, result |-> "None"]
    /\ UNCHANGED <<_suspended_item_finalizers, setups, teardowns>>
    /\ UNCHANGED <<detector_vars, insights_vars, plugin_vars>>

restore_item_finalizers(item) ==
    /\ stack' = DictUpdate(stack, _suspended_item_finalizers)
    /\ _suspended_item_finalizers' = <<>>
    /\ call' = [op |-> "restore_item_finalizers", test |-> item, result |-> "None"]
    /\ UNCHANGED <<setups, teardowns>>
    /\ UNCHANGED <<detector_vars, insights_vars, plugin_vars>>

InitFinalizers ==
    /\ stack = <<>>
    /\ _suspended_item_finalizers = <<>>
    /\ setups = [n \in Range(Chain) |-> 0]
    /\ teardowns = <<>>

-----------------------------------------------------------------------------
(* MergifyCIInsights: the retry loop that runs once the session's tests    *)
(* have run.  Times are in milliseconds.                                   *)

\* int(_DEFAULT_TEST_RETRY_BUDGET_RATIO * ms): a tenth, truncated.
_DEFAULT_TEST_RETRY_BUDGET_RATIO(ms) == ms \div 10

_MAX_TEST_RETRY_COUNT == 1000

_MIN_TEST_RETRY_BUDGET_DURATION == 1000

\* session.items, in collection order.
session_items == <<"a", "bb", "ccc">>

\* The durations, in milliseconds, of one execution of an item.
ItemDurationStep == 1200

ItemDurations == {0, ItemDurationStep}

ItemOutcomes == {"passed", "failed", "skipped"}

ItemReports == [nodeid : Range(session_items), outcome : ItemOutcomes,
                duration : ItemDurations]

\* d.get(k, default)
Get(d, k, default) == IF k \in DOMAIN d THEN d[k] ELSE default

\* d[k] = v on a dict held as a function.
Put(d, k, v) == [x \in DOMAIN d \cup {k} |-> IF x = k THEN v ELSE d[x]]

_add_new_test_duration(durations, test_name, test_duration_ms) ==
    IF test_name \in DOMAIN durations THEN durations
    ELSE Put(durations, test_name, test_duration_ms)

_is_flaky_detection_enabled == _flaky_detection_enabled

_is_flaky_detection_active ==
    _is_flaky_detection_enabled /\ _flaky_detection_error_message = "None"

\* _load_flaky_detection, called at construction: the names the API
\* returns, or the message of the exception the request raised.
FetchedTestNames == {<<>>, <<"a">>, <<"a", "bb">>}

InitInsights ==
    /\ _flaky_detection_enabled \in BOOLEAN
    /\ \/ /\ _flaky_detection_enabled
          /\ \/ /\ _existing_test_names \in FetchedTestNames
                /\ _flaky_detection_error_message = "None"
             \/ /\ _existing_test_names = <<>>
                /\ _flaky_detection_error_message = "error"
       \/ /\ ~_flaky_detection_enabled
          /\ _existing_test_names = <<>>
          /\ _flaky_detection_error_message = "None"
    /\ _total_test_durations_ms = 0
    /\ _new_test_durations_by_name = <<>>
    /\ _new_test_retry_count_by_name = <<>>
    /\ now_ms = 0
    /\ pc = "session"
    /\ next_item = 1
    /\ new_items = <<>>
    /\ budget_deadline = None
    /\ items_to_retry = <<>>
    /\ executions = [t \in Range(session_items) |-> 0]

handle_flaky_detection_for_report(report) ==
    IF ~_is_flaky_detection_active \/ report.outcome \notin {"failed", "passed"}
    THEN UNCHANGED <<_total_test_durations_ms, _new_test_durations_by_name>>
    ELSE /\ _total_test_durations_ms' = _total_test_durations_ms + report.duration
         /\ _new_test_durations_by_name' =
                IF report.nodeid \in Range(_existing_test_names)
                THEN _new_test_durations_by_name
                ELSE _add_new_test_duration(_new_test_durations_by_name,
                                            report.nodeid, report.duration)

\* item.ihook.pytest_runtest_protocol(item): the item runs, the clock
\* advances by its duration, its report is handled.
pytest_runtest_protocol(report) ==
    /\ executions' = [executions EXCEPT ![report.nodeid] = @ + 1]
    /\ now_ms' = now_ms + report.duration
    /\ handle_flaky_detection_for_report(report)

\* pytest runs the session's items, each once, in order.
pytest_runtestloop(report) ==
    /\ pc = "session"
    /\ next_item <= Len(session_items)
    /\ report.nodeid = session_items[next_item]
    /\ pytest_runtest_protocol(report)
    /\ next_item' = next_item + 1
    /\ call' = [op |-> "pytest_runtestloop", test |-> report.nodeid, result |-> "None"]
    /\ UNCHANGED <<_flaky_detection_enabled, _flaky_detection_error_message,
                   _existing_test_names, _new_test_retry_count_by_name, pc,
                   new_items, budget_deadline, items_to_retry>>
    /\ UNCHANGED <<detector_vars, finalizer_vars, plugin_vars>>

_get_budget_duration_ms ==
    Max(_DEFAULT_TEST_RETRY_BUDGET_RATIO(_total_test_durations_ms),
        _MIN_TEST_RETRY_BUDGET_DURATION)

\* A variant with a cap of one retry.
_should_retry_test_Once(test_name) ==
    Get(_new_test_retry_count_by_name, test_name, 0) < 1

_should_retry_test(test_name) ==
    Get(_new_test_retry_count_by_name, test_name, 0) <= _MAX_TEST_RETRY_COUNT

\* run_flaky_detection up to its loop.
run_flaky_detection ==
    /\ pc = "session"
    /\ next_item > Len(session_items)
    /\ IF ~_is_flaky_detection_active
       THEN /\ pc' = "done"
            /\ UNCHANGED <<new_items, budget_deadline>>
       ELSE /\ new_items' = SelectSeq(session_items,
                   LAMBDA item : item \in DOMAIN _new_test_durations_by_name)
            /\ budget_deadline' = now_ms + _get_budget_duration_ms
            /\ pc' = "while"
    /\ call' = [op |-> "run_flaky_detection", test |-> "", result |-> "None"]
    /\ UNCHANGED <<_flaky_detection_enabled, _flaky_detection_error_message,
                   _existing_test_names, _total_test_durations_ms,
                   _new_test_durations_by_name, _new_test_retry_count_by_name,
                   now_ms, next_item, items_to_retry, executions>>
    /\ UNCHANGED <<detector_vars, finalizer_vars, plugin_vars>>

\* The test of the while loop, and the choice of the items of one round.
run_flaky_detection_while ==
    LET retried == SelectSeq(new_items, _should_retry_test)
    IN /\ pc = "while"
       /\ IF now_ms <= budget_deadline /\ retried # <<>>
          THEN /\ items_to_retry' = retried
               /\ next_item' = 1
               /\ pc' = "for"
          ELSE /\ pc' = "done"
               /\ UNCHANGED <<items_to_retry, next_item>>
       /\ call' = [op |-> "run_flaky_detection", test |-> "", result |-> "None"]
       /\ UNCHANGED <<_flaky_detection_enabled, _flaky_detection_error_message,
                      _existing_test_names, _total_test_durations_ms,
                      _new_test_durations_by_name, _new_test_retry_count_by_name,
                      now_ms, new_items, budget_deadline, executions>>
       /\ UNCHANGED <<detector_vars, finalizer_vars, plugin_vars>>

\* A variant that leaves the round as soon as the deadline has passed.
run_flaky_detection_for_StopAtDeadline(report) ==
    /\ pc = "for"
    /\ report.nodeid = items_to_retry[next_item]
    /\ _new_test_retry_count_by_name' =
           Put(_new_test_retry_count_by_name, report.nodeid,
               Get(_new_test_retry_count_by_name, report.nodeid, 0) + 1)
    /\ pytest_runtest_protocol(report)
    /\ IF next_item < Len(items_to_retry) /\ now_ms' <= budget_deadline
       THEN next_item' = next_item + 1 /\ pc' = "for"
       ELSE next_item' = next_item /\ pc' = "while"
    /\ call' = [op |-> "pytest_runtest_protocol", test |-> report.nodeid,
                result |-> "None"]
    /\ UNCHANGED <<_flaky_detection_enabled, _flaky_detection_error_message,
                   _existing_test_names, new_items, budget_deadline,
                   items_to_retry>>
    /\ UNCHANGED <<detector_vars, finalizer_vars, plugin_vars>>

\* One iteration of the for loop: one more execution of an item.
run_flaky_detection_for(report) ==
    /\ pc = "for"
    /\ report.nodeid = items_to_retry[next_item]
    /\ _new_test_retry_count_by_name' =
           Put(_new_test_retry_count_by_name, report.nodeid,
               Get(_new_test_retry_count_by_name, report.nodeid, 0) + 1)
    /\ pytest_runtest_protocol(report)
    /\ IF next_item < Len(items_to_retry)
       THEN next_item' = next_item + 1 /\ pc' = "for"
       ELSE next_item' = next_item /\ pc' = "while"
    /\ call' = [op |-> "pytest_runtest_protocol", test |-> report.nodeid,
                result |-> "None"]
    /\ UNCHANGED <<_flaky_detection_enabled, _flaky_detection_error_message,
                   _existing_test_names, new_items, budget_deadline,
                   items_to_retry>>
    /\ UNCHANGED <<detector_vars, finalizer_vars, plugin_vars>>

(***************************************************************************)
(* PytestMergify (pytest_mergify/__init__.py): the session span.           *)
(***************************************************************************)
\* a span: whether it has been started, its status (the name of an
\* opentelemetry.trace.StatusCode), its
\* "test.case.result.status" attribute and whether it has ended
NoSpan == [started |-> FALSE, status |-> "UNSET", result |-> "", ended |-> FALSE]

start_span == [started |-> TRUE, status |-> "UNSET", result |-> "", ended |-> FALSE]

\* the reports of pytest: report.when and report.outcome
LogReports ==
    [when : {"setup", "call", "teardown"}, outcome : {"passed", "failed", "skipped"}]

\* PytestMergify(): has_error and session_span are not set before
\* pytest_sessionstart, which pytest calls first
InitPlugin ==
    /\ tracer \in BOOLEAN
    /\ has_error = FALSE
    /\ session_span = NoSpan
    /\ test_span = NoSpan
    /\ session_phase = "configured"
    /\ logreports = <<>>

pytest_sessionstart ==
    /\ session_phase = "configured"
    /\ session_phase' = "running"
    /\ session_span' = IF tracer THEN start_span ELSE session_span
    /\ has_error' = FALSE
    /\ UNCHANGED <<tracer, test_span, logreports>>
    /\ UNCHANGED <<detector_vars, call, finalizer_vars, insights_vars>>

pytest_runtest_logreport_Assign(report) ==
    /\ session_phase = "running"
    /\ Len(logreports) < MaxLogReports
    /\ logreports' = Append(logreports, report)
    /\ IF ~tracer \/ report.when # "call"
       THEN UNCHANGED <<has_error, test_span>>
       ELSE /\ has_error' = (report.outcome = "failed")
            /\ test_span' =
                   [start_span EXCEPT
                       !.status = IF report.outcome = "failed" THEN "ERROR" ELSE "OK",
                       !.result = report.outcome]
    /\ UNCHANGED <<tracer, session_span, session_phase>>
    /\ UNCHANGED <<detector_vars, call, finalizer_vars, insights_vars>>

\* pytest runs every test under a span of its own, the current span of its
\* call report
pytest_runtest_logreport(report) ==
    /\ session_phase = "running"
    /\ Len(logreports) < MaxLogReports
    /\ logreports' = Append(logreports, report)
    /\ IF ~tracer \/ report.when # "call"
       THEN UNCHANGED <<has_error, test_span>>
       ELSE /\ has_error' = (has_error \/ report.outcome = "failed")
            /\ test_span' =
                   [start_span EXCEPT
                       !.status = IF report.outcome = "failed" THEN "ERROR" ELSE "OK",
                       !.result = report.outcome]
    /\ UNCHANGED <<tracer, session_span, session_phase>>
    /\ UNCHANGED <<detector_vars, call, finalizer_vars, insights_vars>>

pytest_sessionfinish ==
    /\ session_phase = "running"
    /\ session_phase' = "finished"
    /\ session_span' =
           IF tracer
           THEN [session_span EXCEPT
                    !.status = IF has_error THEN "ERROR" ELSE "OK",
                    !.ended = TRUE]
           ELSE session_span
    /\ UNCHANGED <<tracer, has_error, test_span, logreports>>
    /\ UNCHANGED <<detector_vars, call, finalizer_vars, insights_vars>>


-----------------------------------------------------------------------------
(* The specifications.  Each one exercises one part of the plugin and      *)
(* leaves the others in their initial state.                               *)

NoCall == [op |-> "__post_init__", test |-> "", result |-> "None"]

IdleDetector ==
    /\ InitDetector
    /\ mode = "unhealthy"
    /\ _context = FlakyDetectionContext(<<1, 2>>, <<1, 1>>, <<"a">>, 1,
                                        <<"bb", "ccc">>, 2, 3, 0, 1)

IdleInsights ==
    /\ InitInsights
    /\ ~_flaky_detection_enabled

IdlePlugin ==
    /\ InitPlugin
    /\ ~tracer

\* The allocation of the retry targets: two tests are reported in their call
\* phase, the deadlines are set, the targets computed, and the clock advances.
AllocationTests == {"bb", "ccc"}

AllocationReports ==
    {r \in Reports : /\ r.nodeid \in AllocationTests
                     /\ r.when = "call"
                     /\ r.outcome = "passed"}

InitAllocation ==
    /\ InitDetector
    /\ _context \in AllocationContexts
    /\ call = NoCall
    /\ InitFinalizers
    /\ IdlePlugin
    /\ IdleInsights

NextAllocation ==
    \/ \E report \in AllocationReports :
           /\ RerunCountWith(report) <= MaxRerunCount
           /\ TotalDurationWith(report) <= MaxTotalSteps * TimeStep
           /\ try_fill_metrics_from_report(report)
    \/ \E test \in AllocationTests : get_rerun_count_for_test(test)
    \/ set_global_deadline
    \/ \E test \in AllocationTests, timeout \in Timeouts :
           set_test_deadline(test, timeout)
    \/ Tick

SpecAllocation == InitAllocation /\ [][NextAllocation]_vars

\* The end of the reruns: one test is reported in its three phases, once and
\* again, it is given the global deadline, its target is computed, and every
\* test is asked about.
LastRerunReports ==
    {r \in Reports : r.nodeid = "bb" /\ r.outcome = "passed"}

InitLastRerun ==
    /\ InitDetector
    /\ _context \in AllocationContexts
    /\ call = NoCall
    /\ InitFinalizers
    /\ IdlePlugin
    /\ IdleInsights

NextLastRerun ==
    \/ \E report \in LastRerunReports :
           /\ TotalDurationWith(report) <= 2 * MaxTotalSteps * TimeStep
           /\ try_fill_metrics_from_report(report)
    \/ \E test \in Tests : get_rerun_count_for_test(test)
    \/ set_global_deadline
    \/ \E test \in Tests : set_test_deadline(test, None)
    \/ \E test \in Tests : is_last_rerun_for_test(test)
    \/ Tick

SpecLastRerun == InitLastRerun /\ [][NextLastRerun]_vars

\* The scenarios of the tests: each test of the scenario is reported once in
\* its call phase, the budget is started once, each test is given the global
\* deadline once, its target is computed once, and its reruns run.
ScenarioReports ==
    {[nodeid |-> t, outcome |-> "passed", when |-> "call",
      duration |-> ScenarioDurations(_context)[t]] :
        t \in DOMAIN ScenarioDurations(_context)}

InitScenarios ==
    /\ InitDetector
    /\ _context \in ScenarioContexts
    /\ call = NoCall
    /\ InitFinalizers
    /\ IdlePlugin
    /\ IdleInsights

NextScenarios ==
    \/ \E report \in ScenarioReports :
           /\ RerunCountWith(report) <= MaxRerunCount
           /\ try_fill_metrics_from_report(report)
    \/ /\ _global_deadline = None
       /\ set_global_deadline
    \/ \E test \in DOMAIN _test_metrics :
           /\ _test_metrics[test].deadline = None
           /\ set_test_deadline(test, None)
    \/ \E test \in DOMAIN ScenarioDurations(_context) :
           /\ test \in DOMAIN _test_metrics => ~_test_metrics[test].is_processed
           /\ get_rerun_count_for_test(test)
    \/ RunReruns

SpecScenarios == InitScenarios /\ [][NextScenarios]_vars

\* The tracking of the tests: every report, of every phase and outcome, for
\* the three tests, the session filter, and the targets.

\* The node ids of the items a session may hold.
SessionItems == {{"a", "bb", "ccc"}, {"a", "ccc"}}

InitTracking ==
    /\ InitDetector
    /\ _context \in TrackingContexts
    /\ call = NoCall
    /\ InitFinalizers
    /\ IdlePlugin
    /\ IdleInsights

NextTracking ==
    \/ \E report \in Reports :
           /\ RerunCountWith(report) <= MaxRerunCount
           /\ TotalDurationWith(report) <= MaxTotalSteps * TimeStep
           /\ try_fill_metrics_from_report(report)
    \/ \E items \in SessionItems : filter_context_tests_with_session(items)
    \/ \E test \in Tests : get_rerun_count_for_test(test)

SpecTracking == InitTracking /\ [][NextTracking]_vars

\* The fixture finalizers: pytest sets the item up and tears it down, with
\* any next item; the plugin suspends and restores around the teardown.
\* pytest sets no node up between a suspend and its restore.
NextItemChains ==
    {<<>>, <<"session">>, <<"session", "module">>,
     <<"session", "module", "class">>, Chain}

SuspendedItems == {Item, "other"}

InitFinalizerRuns ==
    /\ IdleDetector
    /\ call = NoCall
    /\ InitFinalizers
    /\ IdlePlugin
    /\ IdleInsights

NextFinalizers ==
    \/ _suspended_item_finalizers = <<>> /\ pytest_setup
    \/ \E needed \in NextItemChains : pytest_teardown_exact(needed)
    \/ \E item \in SuspendedItems : suspend_item_finalizers(item)
    \/ \E item \in SuspendedItems : restore_item_finalizers(item)

SpecFinalizers == InitFinalizerRuns /\ [][NextFinalizers]_vars

\* The reruns of an item: the plugin suspends before the teardown of a run,
\* pytest tears the item down and sets the chain up again for the next run,
\* and the plugin suspends again, until it restores.
NextRerunFinalizers ==
    \/ pytest_setup
    \/ \E needed \in NextItemChains : pytest_teardown_exact(needed)
    \/ \E item \in SuspendedItems : suspend_item_finalizers(item)
    \/ \E item \in SuspendedItems : restore_item_finalizers(item)

SpecRerunFinalizers == InitFinalizerRuns /\ [][NextRerunFinalizers]_vars

\* The retry loop of MergifyCIInsights: pytest runs the three items of the
\* session, then run_flaky_detection retries the new ones.
InitInsightRuns ==
    /\ IdleDetector
    /\ call = NoCall
    /\ InitFinalizers
    /\ IdlePlugin
    /\ InitInsights

NextInsights ==
    \/ \E report \in ItemReports : pytest_runtestloop(report)
    \/ run_flaky_detection
    \/ run_flaky_detection_while
    \/ \E report \in ItemReports : run_flaky_detection_for(report)

SpecInsights == InitInsightRuns /\ [][NextInsights]_vars

\* The same, where pytest and the loop go on: every execution of an item
\* returns, and the code of run_flaky_detection takes its next step.
SpecInsightsFair == SpecInsights /\ WF_vars(NextInsights)

\* The session filter and the global deadline: the session holds any of the
\* tests, tests are reported in their call phase, the global deadline is set,
\* and the clock advances.
FilteringReports ==
    {r \in Reports : r.when = "call" /\ r.outcome = "passed"}

InitFiltering ==
    /\ InitDetector
    /\ _context \in AllocationContexts \cup TrackingContexts
    /\ call = NoCall
    /\ InitFinalizers
    /\ IdlePlugin
    /\ IdleInsights

NextFiltering ==
    \/ \E items \in SUBSET Tests : filter_context_tests_with_session(items)
    \/ \E report \in FilteringReports :
           /\ RerunCountWith(report) <= MaxRerunCount
           /\ TotalDurationWith(report) <= MaxTotalSteps * TimeStep
           /\ try_fill_metrics_from_report(report)
    \/ set_global_deadline
    \/ Tick

SpecFiltering == InitFiltering /\ [][NextFiltering]_vars

\* The targets when the context runs out of tests: the session holds any of
\* the tests, so that the filter may empty the lists of the context, tests
\* are reported in their call phase, some with no duration, the deadlines are
\* set and the targets computed.
InitRemaining ==
    /\ InitDetector
    /\ _context \in TrackingContexts
    /\ call = NoCall
    /\ InitFinalizers
    /\ IdlePlugin
    /\ IdleInsights

NextRemaining ==
    \/ \E report \in FilteringReports :
           /\ RerunCountWith(report) <= MaxRerunCount
           /\ try_fill_metrics_from_report(report)
    \/ \E items \in SUBSET Tests : filter_context_tests_with_session(items)
    \/ set_global_deadline
    \/ \E test \in Tests : set_test_deadline(test, None)
    \/ \E test \in Tests : get_rerun_count_for_test(test)

SpecRemaining == InitRemaining /\ [][NextRemaining]_vars

\* The two modes side by side: the detector of one mode runs, and at any
\* moment its context is exchanged for one that differs only in what the
\* server sends for the other mode (the ratio and the unhealthy tests in mode
\* "new", the ratio of the new tests in mode "unhealthy").
OtherModeFields(c) ==
    IF mode = "new"
    THEN [c EXCEPT !.budget_ratio_for_unhealthy_tests = <<0, 1>>,
                   !.unhealthy_test_names = <<>>]
    ELSE [c EXCEPT !.budget_ratio_for_new_tests = <<0, 1>>]

OtherContext(c) ==
    /\ c # _context
    /\ OtherModeFields(c) = OtherModeFields(_context)
    /\ _context' = c
    /\ UNCHANGED <<mode, now, _global_deadline, _test_metrics, _over_length_tests>>
    /\ UNCHANGED <<call, plugin_vars, finalizer_vars, insights_vars>>

ModeReports ==
    {r \in Reports : /\ r.when = "call"
                     /\ r.outcome = "passed"
                     /\ r.duration = TimeStep}

InitModes ==
    /\ InitDetector
    /\ _context \in ModeContexts
    /\ call = NoCall
    /\ InitFinalizers
    /\ IdlePlugin
    /\ IdleInsights

NextModes ==
    \/ \E report \in ModeReports :
           /\ RerunCountWith(report) <= MaxRerunCount
           /\ try_fill_metrics_from_report(report)
    \/ \E test \in Tests : get_rerun_count_for_test(test)
    \/ set_global_deadline
    \/ \E test \in Tests : set_test_deadline(test, None)
    \/ Tick
    \/ \E c \in ModeContexts : OtherContext(c)

SpecModes == InitModes /\ [][NextModes]_vars

\* A session of pytest: it starts, reports up to MaxLogReports phases of its
\* tests, and finishes.
InitSession ==
    /\ IdleDetector
    /\ call = NoCall
    /\ InitFinalizers
    /\ IdleInsights
    /\ InitPlugin

NextSession ==
    \/ pytest_sessionstart
    \/ \E report \in LogReports : pytest_runtest_logreport(report)
    \/ pytest_sessionfinish

SpecSession == InitSession /\ [][NextSession]_vars

-----------------------------------------------------------------------------
(* The retry targets (SpecAllocation).                                     *)

\* The call that led to the state computed the target of a tracked test.
TargetComputed(test) ==
    /\ call.op = "get_rerun_count_for_test"
    /\ call.test = test
    /\ test \in DOMAIN _test_metrics

\* C1: the retry target stored for a tracked test is 0 or lies between
\* min_test_execution_count and max_test_execution_count: never between 1
\* and the minimum less one, never above the maximum.
C1_TargetIsZeroOrWithinBounds ==
    \A test \in DOMAIN _test_metrics :
        LET count == _test_metrics[test].scheduled_rerun_count
        IN \/ count = 0
           \/ /\ _context.min_test_execution_count <= count
              /\ count <= _context.max_test_execution_count

\* One test got a target within the bounds, another one, too slow for its
\* share, got 0.
C1_Witness ==
    \E fast, slow \in DOMAIN _test_metrics :
        /\ TargetComputed(slow)
        /\ _test_metrics[fast].is_processed
        /\ _test_metrics[fast].scheduled_rerun_count >= 1
        /\ _test_metrics[fast].scheduled_rerun_count
               >= _context.min_test_execution_count
        /\ initial_duration(_test_metrics[slow]) > 0
        /\ _test_metrics[slow].deadline # None
        /\ _test_metrics[slow].deadline > now
        /\ _test_metrics[slow].scheduled_rerun_count = 0

\* The time the targets commit: the sum of scheduled_rerun_count times the
\* initial duration.
RECURSIVE CommittedDuration(_)
CommittedDuration(tests) ==
    IF tests = {} THEN 0
    ELSE LET test == CHOOSE t \in tests : TRUE
         IN expected_duration(_test_metrics[test])
                + CommittedDuration(tests \ {test})

NoTimeLeft(test) ==
    \/ _test_metrics[test].deadline = None
    \/ _test_metrics[test].deadline <= now

\* C3, as the specification states it: with no time left before its
\* deadline, or no deadline, a tracked test is allocated 0 retries whatever
\* its initial duration.
C3_NoTimeLeftGivesZero ==
    \A test \in Tests :
        TargetComputed(test) /\ NoTimeLeft(test) =>
            call.result = 0 /\ _test_metrics[test].scheduled_rerun_count = 0

\* C3, amended: with no time left before its deadline, or no deadline, a
\* tracked test whose initial duration is not zero is allocated 0 retries; one
\* whose initial duration is zero is still allocated max_test_execution_count,
\* provided that is not under the minimum.
C3_NoTimeLeftGivesZeroUnlessFree ==
    \A test \in Tests :
        TargetComputed(test) /\ NoTimeLeft(test) =>
            LET expected ==
                    IF /\ initial_duration(_test_metrics[test]) = 0
                       /\ _context.max_test_execution_count
                              >= _context.min_test_execution_count
                    THEN _context.max_test_execution_count
                    ELSE 0
            IN /\ call.result = expected
               /\ _test_metrics[test].scheduled_rerun_count = expected

\* The target of a test that lasts was computed past its deadline, after a
\* target that was not 0 had been computed for it.
C3_Witness ==
    \E test \in DOMAIN _test_metrics :
        /\ TargetComputed(test)
        /\ _test_metrics[test].deadline # None
        /\ _test_metrics[test].deadline <= now
        /\ initial_duration(_test_metrics[test]) > 0
        /\ _context.max_test_execution_count >= _context.min_test_execution_count
        /\ call.result = 0

\* C4, as the specification states it: a tracked test whose initial duration
\* is zero gets max_test_execution_count.
C4_ZeroDurationGivesMax ==
    \A test \in Tests :
        TargetComputed(test) /\ initial_duration(_test_metrics[test]) = 0 =>
            /\ call.result = _context.max_test_execution_count
            /\ _test_metrics[test].scheduled_rerun_count
                   = _context.max_test_execution_count

\* C4, amended: a tracked test whose initial duration is zero gets
\* max_test_execution_count when that is at least min_test_execution_count,
\* and 0 when the context sets the maximum under the minimum.
C4_ZeroDurationGivesMaxUnlessUnderMin ==
    \A test \in Tests :
        TargetComputed(test) /\ initial_duration(_test_metrics[test]) = 0 =>
            LET expected ==
                    IF _context.max_test_execution_count
                           >= _context.min_test_execution_count
                    THEN _context.max_test_execution_count
                    ELSE 0
            IN /\ call.result = expected
               /\ _test_metrics[test].scheduled_rerun_count = expected

\* A test of no duration got the maximum although its deadline leaves less
\* than that.
C4_Witness ==
    \E test \in DOMAIN _test_metrics :
        /\ TargetComputed(test)
        /\ initial_duration(_test_metrics[test]) = 0
        /\ _test_metrics[test].deadline # None
        /\ _test_metrics[test].deadline > now
        /\ call.result = _context.max_test_execution_count
        /\ call.result > 0

\* C8: should_abort_reruns(T) is true if and only if T is tracked, T has a
\* deadline, and now plus the initial duration of T is at or past it.
C8_AbortIffProjectedPastDeadline ==
    \A test \in Tests :
        should_abort_reruns(test) <=>
            /\ test \in DOMAIN _test_metrics
            /\ _test_metrics[test].deadline # None
            /\ now + initial_duration(_test_metrics[test])
                   >= _test_metrics[test].deadline

\* A tracked test would complete exactly at its deadline, and is aborted;
\* another one has no deadline, and is not.
C8_Witness ==
    \E test, other \in DOMAIN _test_metrics :
        /\ _test_metrics[test].deadline # None
        /\ now + initial_duration(_test_metrics[test]) = _test_metrics[test].deadline
        /\ should_abort_reruns(test)
        /\ _test_metrics[other].deadline = None
        /\ ~should_abort_reruns(other)

-----------------------------------------------------------------------------
(* The tracked tests (SpecTracking).                                       *)

\* C5: in mode "new" a test of existing_test_names is never tracked, whatever
\* is reported for it: try_fill_metrics_from_report returns False for it and
\* get_rerun_count_for_test returns 0, so that it is given no rerun.
C5_ExistingTestNeverTracked ==
    mode = "new" =>
        \A test \in Range(_context.existing_test_names) :
            /\ ~is_test_tracked(test)
            /\ call.op = "try_fill_metrics_from_report" /\ call.test = test
                   => call.result = FALSE
            /\ call.op = "get_rerun_count_for_test" /\ call.test = test
                   => call.result = 0

\* The target of an existing test was asked for and is 0, while a new test
\* is tracked.
C5_Witness ==
    /\ mode = "new"
    /\ call.op = "get_rerun_count_for_test"
    /\ call.test \in Range(_context.existing_test_names)
    /\ call.result = 0
    /\ \E test \in Tests : is_test_tracked(test) /\ _test_metrics[test].rerun_count > 0

\* C5, in the retry loop of MergifyCIInsights: a test of _existing_test_names
\* is not recorded as new, is never retried, and has run exactly once when
\* the session items have run.
C5_ExistingTestRunsOnce ==
    _is_flaky_detection_active =>
        \A test \in Range(_existing_test_names) :
            /\ test \notin DOMAIN _new_test_durations_by_name
            /\ test \notin DOMAIN _new_test_retry_count_by_name
            /\ executions[test] <= 1
            /\ pc # "session" => executions[test] = 1

\* What C9 requires of a report for it to be recorded.
Qualifies(report) ==
    /\ report.outcome \in {"failed", "passed", "rerun"}
    /\ mode = "new" => report.nodeid \notin Range(_context.existing_test_names)
    /\ mode = "unhealthy" => report.nodeid \in Range(_context.unhealthy_test_names)
    /\ Len(report.nodeid) <= _context.max_test_name_length

\* The metrics of the test of the report, before it is recorded.
MetricsBefore(report) ==
    IF report.nodeid \in DOMAIN _test_metrics
    THEN _test_metrics[report.nodeid]
    ELSE DefaultTestMetrics

C10_OverLengthTestsExcluded ==
    /\ _over_length_tests \cap DOMAIN _test_metrics = {}
    /\ \A test \in Tests :
           Len(test) > _context.max_test_name_length =>
               /\ ~is_test_tracked(test)
               /\ call.op = "get_rerun_count_for_test" /\ call.test = test
                      => call.result = 0
    /\ \A test \in _over_length_tests :
           /\ Len(test) > _context.max_test_name_length
           /\ ~make_report_raises => test \in make_report.Skipped

\* A test is in the over-length set, its target was asked for, and another
\* test is tracked and reported as active.
C10_Witness ==
    /\ call.op = "get_rerun_count_for_test"
    /\ call.test \in _over_length_tests
    /\ call.result = 0
    /\ DOMAIN _test_metrics # {}
    /\ ~make_report_raises
    /\ make_report.Skipped = {call.test}
    /\ make_report.Active # {}

-----------------------------------------------------------------------------
(* The retry loop (SpecInsights).                                          *)

\* C6, as the specification states it: run_flaky_detection starts no
\* execution of an item once the clock is past the budget deadline.
C6_NoExecutionPastDeadline ==
    [][pc = "for" /\ executions' # executions => now_ms <= budget_deadline]_vars

\* The loop has run an item that it started past the budget deadline.
C6_StartedPastDeadline ==
    /\ pc \in {"for", "while"}
    /\ call.op = "pytest_runtest_protocol"
    /\ \E duration \in ItemDurations : now_ms - duration > budget_deadline

-----------------------------------------------------------------------------
(* The fixture finalizers (SpecFinalizers).                                *)

\* The number of entries of a dict that hold the finalizer list.
Held(d, finalizers) == Cardinality({i \in 1..Len(d) : d[i].finalizers = finalizers})

\* The number of times the finalizer list has run.
Ran(finalizers) ==
    Cardinality({i \in 1..Len(teardowns) : teardowns[i] = finalizers})

\* The finalizer lists of the nodes above the item that pytest has set up.
HigherScopeFinalizers ==
    {<<node, n>> : node \in Range(Chain) \ {Item}, n \in 1..MaxSetups}
        \cap {f \in Range(Chain) \X (1..MaxSetups) : f[2] <= setups[f[1]]}

-----------------------------------------------------------------------------
(* The context fetch (SpecInsights).                                       *)

\* C11, as the specification states it: when the fetch fails or returns no
\* existing test, an error message is recorded, no test is seen as new and
\* none is retried.
C11_NoBaselineDisablesDetection ==
    _flaky_detection_enabled /\ _existing_test_names = <<>> =>
        /\ _flaky_detection_error_message # "None"
        /\ ~_is_flaky_detection_active
        /\ DOMAIN _new_test_durations_by_name = {}
        /\ DOMAIN _new_test_retry_count_by_name = {}

\* The fetch returned no existing test, no error message is recorded, and a
\* test of the session has been retried as a new test.
C11_RetriedWithoutBaseline ==
    /\ _flaky_detection_enabled
    /\ _existing_test_names = <<>>
    /\ _flaky_detection_error_message = "None"
    /\ \E test \in DOMAIN _new_test_retry_count_by_name :
           /\ _new_test_retry_count_by_name[test] >= 1
           /\ executions[test] >= 2

-----------------------------------------------------------------------------
(* The session filter and the global deadline (SpecFiltering).             *)

\* C12, as the specification states it: in mode "new" existing_test_names is
\* never empty, the session filter applied or not.
C12_ExistingTestNamesNeverEmpty ==
    mode = "new" => Len(_context.existing_test_names) > 0

\* The session filter has emptied existing_test_names in mode "new".
C12_EmptiedByFilter ==
    /\ mode = "new"
    /\ call.op = "filter_context_tests_with_session"
    /\ _context.existing_test_names = <<>>

-----------------------------------------------------------------------------
(* The deadline of a test (SpecAllocation).                                *)

\* The step is a call of set_test_deadline for a tracked test.
DeadlineSet ==
    /\ call'.op = "set_test_deadline"
    /\ call'.test \in DOMAIN _test_metrics

\* now + 0.9 * timeout
TimeoutDeadline(timeout) == now + RoundHalfEven(timeout * 9, 10)

\* What a call of set_test_deadline does to the metrics, given whether it
\* tightens the deadline of the test.
DeadlineSetTo(tightened) ==
    LET test == call'.test
        before == _test_metrics[test]
        after == _test_metrics'[test]
    IN /\ after = [before EXCEPT
                      !.deadline = IF tightened
                                   THEN TimeoutDeadline(call'.timeout)
                                   ELSE _global_deadline,
                      !.prevented_timeout = before.prevented_timeout \/ tightened]
       /\ \A other \in DOMAIN _test_metrics \ {test} :
              _test_metrics'[other] = _test_metrics[other]

\* C13, as the specification states it: set_test_deadline sets the deadline
\* of the test to the global deadline, or to now + 0.9 * timeout when a
\* timeout is given and that is earlier than the global deadline, in which
\* case only the call sets prevented_timeout; the deadline is never later
\* than the global deadline.
C13_DeadlineIsGlobalOrTightened ==
    [][DeadlineSet =>
          LET timeout == call'.timeout
              tightened == /\ timeout # None
                           /\ _global_deadline # None
                           /\ TimeoutDeadline(timeout) < _global_deadline
          IN /\ DeadlineSetTo(tightened)
             /\ _test_metrics'[call'.test].deadline # None =>
                    /\ _global_deadline # None
                    /\ _test_metrics'[call'.test].deadline <= _global_deadline]_vars

\* C13, amended: set_test_deadline sets the deadline of the test to the
\* global deadline, or to now + 0.9 * timeout when a timeout that is not zero
\* is given and either that is earlier than the global deadline or there is
\* no global deadline, in which case only the call sets prevented_timeout;
\* when there is a global deadline, the deadline of the test is never later.
C13_DeadlineIsGlobalOrTimeout ==
    [][DeadlineSet =>
          LET timeout == call'.timeout
              tightened == /\ timeout # None
                           /\ timeout # 0
                           /\ \/ _global_deadline = None
                              \/ TimeoutDeadline(timeout) < _global_deadline
          IN /\ DeadlineSetTo(tightened)
             /\ _global_deadline # None =>
                    /\ _test_metrics'[call'.test].deadline # None
                    /\ _test_metrics'[call'.test].deadline <= _global_deadline]_vars

\* A timeout has tightened the deadline of a test under the global deadline,
\* and another test, given no timeout, is on the global deadline.
C13_Witness ==
    /\ call.op = "set_test_deadline"
    /\ call.test \in DOMAIN _test_metrics
    /\ call.timeout # None
    /\ _global_deadline # None
    /\ _test_metrics[call.test].deadline = now + RoundHalfEven(call.timeout * 9, 10)
    /\ _test_metrics[call.test].deadline < _global_deadline
    /\ _test_metrics[call.test].prevented_timeout
    /\ \E other \in DOMAIN _test_metrics :
           /\ _test_metrics[other].deadline = _global_deadline
           /\ ~_test_metrics[other].prevented_timeout

-----------------------------------------------------------------------------
(* The global deadline (SpecAllocation).                                   *)

\* max(ratio for the mode x mean baseline duration x number of baseline
\* tests, min_budget_duration)
BudgetDuration ==
    LET ratio == IF mode = "new"
                 THEN _context.budget_ratio_for_new_tests
                 ELSE _context.budget_ratio_for_unhealthy_tests
        projected == _context.existing_tests_mean_duration_ms * MillisecondUs
                         * Len(_context.existing_test_names)
    IN Max(RoundHalfEven(ratio[1] * projected, ratio[2]),
           _context.min_budget_duration_ms * MillisecondUs)

\* C14, as the specification states it: the first use of the budget sets the
\* global deadline to the time of that use plus the budget duration, no
\* later step moves it, and the budget is never below min_budget_duration.
C14_GlobalDeadlinePinnedAtFirstUse ==
    [][/\ call'.op = "set_global_deadline" /\ _global_deadline = None =>
              _global_deadline' = now + BudgetDuration
       /\ _global_deadline # None => _global_deadline' = _global_deadline
       /\ _get_budget_duration >= min_budget_duration(_context)]_vars

\* A test holds a copy of a global deadline that has been moved since: its
\* deadline, which no timeout has tightened, is earlier than the global one.
C14_GlobalDeadlineMoved ==
    /\ call.op = "set_global_deadline"
    /\ \E test \in DOMAIN _test_metrics :
           /\ _test_metrics[test].deadline # None
           /\ ~_test_metrics[test].prevented_timeout
           /\ _test_metrics[test].deadline < _global_deadline

-----------------------------------------------------------------------------
(* The last rerun of a test (SpecLastRerun).                               *)

\* The number of call-phase reports recorded for the test.
CallReportsRecorded(metrics, test) ==
    IF test \in DOMAIN metrics THEN metrics[test].rerun_count ELSE 0

\* C15: is_last_rerun_for_test(T) is true exactly when T is tracked, its
\* target is not zero and the number of call-phase reports recorded for T is
\* the target plus one; a recorded call-phase report adds one to that number,
\* a setup or teardown report, and a report that is not recorded, leave it.
C15_LastRerunIffTargetPlusOneCallReports ==
    /\ [](call.op = "is_last_rerun_for_test" =>
              call.result =
                  (/\ is_test_tracked(call.test)
                   /\ _test_metrics[call.test].scheduled_rerun_count # 0
                   /\ CallReportsRecorded(_test_metrics, call.test)
                          = _test_metrics[call.test].scheduled_rerun_count + 1))
    /\ [][call'.op = "try_fill_metrics_from_report" =>
              CallReportsRecorded(_test_metrics', call'.test)
                  = CallReportsRecorded(_test_metrics, call'.test)
                        + (IF call'.result /\ call'.report.when = "call"
                           THEN 1 ELSE 0)]_vars

\* The test is on its last rerun with two call-phase reports recorded, after
\* a setup report that counted for its duration only.
C15_Witness ==
    /\ call.op = "is_last_rerun_for_test"
    /\ call.result
    /\ _test_metrics[call.test].rerun_count = 2
    /\ _test_metrics[call.test].scheduled_rerun_count = 1
    /\ _test_metrics[call.test].initial_setup_duration > 0

-----------------------------------------------------------------------------
(* The targets of the scenarios (SpecScenarios).                           *)

\* The step computes the target of a tracked test.
TargetStep ==
    /\ call'.op = "get_rerun_count_for_test"
    /\ call'.test \in DOMAIN _test_metrics

\* min(floor(share / duration), max_test_execution_count), replaced by 0
\* when that is below min_test_execution_count.
CappedFloor(share, duration) ==
    LET capped == Min(share \div duration, _context.max_test_execution_count)
    IN IF capped < _context.min_test_execution_count THEN 0 ELSE capped

\* The target of a tracked test that is not free is the capped floor of the
\* share get_rerun_count_for_test gives it.
C16_TargetIsCappedFloorOfShare ==
    [][TargetStep /\ initial_duration(_test_metrics[call'.test]) > 0 =>
          LET test == call'.test
              fair_share == RoundHalfEven(_get_duration_before_test_deadline(test),
                                          _count_remaining_tests)
              duration == initial_duration(_test_metrics[test])
              floor == fair_share \div duration
          IN /\ floor * duration <= fair_share
             /\ fair_share < (floor + 1) * duration
             /\ _test_metrics'[test].scheduled_rerun_count
                    = CappedFloor(fair_share, duration)
             /\ call'.result = CappedFloor(fair_share, duration)]_vars

\* The target of the only tracked test, a new test of 1 ms, has just been
\* computed with the whole budget of 4 s left, a minimum of 5 and a maximum
\* of 1000.
SingleFastTest ==
    /\ TargetComputed("a")
    /\ mode = "new"
    /\ DOMAIN _test_metrics = {"a"}
    /\ initial_duration(_test_metrics["a"]) = MillisecondUs
    /\ _get_budget_duration = 4000 * MillisecondUs
    /\ _test_metrics["a"].deadline = now + _get_budget_duration
    /\ _context.min_test_execution_count = 5
    /\ _context.max_test_execution_count = 1000

\* C16, as the specification states it: the target of a tracked test that is
\* not free is min(floor(fair_share / initial_duration), maximum), replaced
\* by 0 below the minimum, and a single new 1 ms test under a 4 s budget with
\* a maximum of 1000 and a minimum of 5 is allocated 1000.
C16_SingleFastTestGetsMax ==
    /\ [](SingleFastTest => call.result = 1000)
    /\ C16_TargetIsCappedFloorOfShare

\* A single new 1 ms test under a 4 s budget is allocated 800.
C16_SingleFastTestUnderMax ==
    /\ SingleFastTest
    /\ call.result = 800
    /\ _test_metrics["a"].scheduled_rerun_count = 800

\* The tracked tests whose target is not computed yet.
Unprocessed == {t \in DOMAIN _test_metrics : ~_test_metrics[t].is_processed}

\* C17, as the specification states it: the fair share used for the target
\* of a test is the time left before its deadline divided by the number of
\* tracked tests whose is_processed flag is false.
C17_ShareIsTimeLeftByUnprocessed ==
    [][TargetStep /\ call'.test \in Unprocessed =>
          LET test == call'.test
              time_left == _get_duration_before_test_deadline(test)
              fair_share == RoundHalfEven(time_left, Cardinality(Unprocessed))
          IN /\ RoundHalfEven(time_left, _count_remaining_tests) = fair_share
             /\ call'.result =
                    _get_normalized_rerun_count(
                        fair_share, initial_duration(_test_metrics[test]))]_vars

\* Three tests are tracked and one of them is processed; the 100 ms test,
\* with 4 s left and two tests unprocessed, has just got 40 and not 20.
C17_ShareByBaseline ==
    /\ TargetComputed("bb")
    /\ DOMAIN _test_metrics = {"a", "bb", "ccc"}
    /\ Unprocessed = {"a"}
    /\ initial_duration(_test_metrics["bb"]) = 100 * MillisecondUs
    /\ _test_metrics["bb"].deadline = now + 4000 * MillisecondUs
    /\ call.result = 40

\* Under a budget of 500 ms and a minimum of 5, the 1 s test got 0, and the
\* target of the 1 ms test has just been computed with the whole budget left.
SlowThenFast ==
    /\ TargetComputed("a")
    /\ DOMAIN _test_metrics = {"a", "bb"}
    /\ _get_budget_duration = 500 * MillisecondUs
    /\ _context.min_test_execution_count = 5
    /\ initial_duration(_test_metrics["bb"]) = 1000 * MillisecondUs
    /\ _test_metrics["bb"].is_processed
    /\ _test_metrics["bb"].scheduled_rerun_count = 0
    /\ initial_duration(_test_metrics["a"]) = MillisecondUs
    /\ _test_metrics["a"].deadline = now + _get_budget_duration

\* C18, as the specification states it: a test that gets 0 for being too
\* slow is marked processed, and the share of the next test is the whole of
\* the time left divided by the tests still unprocessed; with a budget of
\* 500 ms and a minimum of 5, a 1 s test gets 0 and the 1 ms test after it 500.
C18_SlowTestLeavesItsShare ==
    /\ [](\A test \in DOMAIN _test_metrics :
              TargetComputed(test) => _test_metrics[test].is_processed)
    /\ [](SlowThenFast => call.result = 500)
    /\ [][/\ TargetStep
          /\ call'.test \in Unprocessed
          /\ \E slow \in DOMAIN _test_metrics \ Unprocessed :
                 _test_metrics[slow].scheduled_rerun_count = 0
          => call'.result =
                 _get_normalized_rerun_count(
                     RoundHalfEven(_get_duration_before_test_deadline(call'.test),
                                   Cardinality(Unprocessed)),
                     initial_duration(_test_metrics[call'.test]))]_vars

\* The 1 ms test that follows the 1 s test gets a third of the budget: 166.
C18_FastTestGetsAThird ==
    /\ SlowThenFast
    /\ call.result = 166

\* The tests A, B, C and D of 10, 20, 30 and 40 ms.
FourTests == {"a", "bb", "ccc", "dddd"}

\* The allocation the specification expects for them.
ExpectedAllocation ==
    [t \in FourTests |->
        IF t = "a" THEN 750 ELSE IF t = "bb" THEN 375
        ELSE IF t = "ccc" THEN 250 ELSE 187]

\* The four tests are tracked, under a budget of 30 s started at time 0 and
\* given to each of them, with a minimum of 1 and a maximum of 1000.
FourTestsScenario ==
    /\ DOMAIN _test_metrics = FourTests
    /\ _get_budget_duration = 30000 * MillisecondUs
    /\ _context.min_test_execution_count = 1
    /\ _context.max_test_execution_count = 1000
    /\ \A t \in FourTests :
           /\ initial_duration(_test_metrics[t]) = Len(t) * 10 * MillisecondUs
           /\ _test_metrics[t].deadline = _get_budget_duration

\* The tests faster than the test have their targets, the expected ones, no
\* other test has, and the clock has advanced by the time these commit.
FasterTestsDeducted(test) ==
    /\ FourTests \ Unprocessed = {t \in FourTests : Len(t) < Len(test)}
    /\ \A t \in FourTests \ Unprocessed :
           _test_metrics[t].scheduled_rerun_count = ExpectedAllocation[t]
    /\ now = CommittedDuration(FourTests \ Unprocessed)

\* C19, as the specification states it: with a budget of 30 s, a minimum of
\* 1, a maximum of 1000 and tests of 10, 20, 30 and 40 ms whose targets are
\* computed in ascending order of duration, the time each commits being
\* deducted before the next computation, the targets are 750, 375, 250 and
\* 187, and the time they commit is at most 30 s.
C19_FastestFirstRollover ==
    /\ [][TargetStep /\ FourTestsScenario /\ FasterTestsDeducted(call'.test) =>
              call'.result = ExpectedAllocation[call'.test]]_vars
    /\ [](/\ FourTestsScenario
          /\ Unprocessed = {}
          /\ \A t \in FourTests :
                 _test_metrics[t].scheduled_rerun_count = ExpectedAllocation[t]
          => CommittedDuration(FourTests) <= _get_budget_duration)

\* The 10 ms test, the first to get its target, has just got 1000.
C19_FastestTestGetsMax ==
    /\ FourTestsScenario
    /\ TargetComputed("a")
    /\ Unprocessed = FourTests \ {"a"}
    /\ now = 0
    /\ call.result = 1000

\* In mode "unhealthy", the four tests being the unhealthy tests of the
\* session, the targets are the expected ones.
C19_ExpectedAllocationWhenUnhealthy ==
    /\ mode = "unhealthy"
    /\ FourTestsScenario
    /\ TargetComputed("dddd")
    /\ \A t \in FourTests :
           _test_metrics[t].scheduled_rerun_count = ExpectedAllocation[t]

\* The target get_rerun_count_for_test would give the tracked test now.
TargetNow(test) ==
    _get_normalized_rerun_count(
        RoundHalfEven(_get_duration_before_test_deadline(test),
                      _count_remaining_tests),
        initial_duration(_test_metrics[test]))

\* C20, as the specification states it: for two eligible tests A, faster,
\* and B, slower, that can both reach the minimum, when A hits the cap, B
\* gets a strictly larger target once the target of A is computed than it
\* would have got before.
C20_FastestFirstGivesSlowerMore ==
    [][TargetStep /\ call'.test \in Unprocessed
           /\ call'.result = _context.max_test_execution_count =>
          \A B \in Unprocessed \ {call'.test} :
              /\ initial_duration(_test_metrics[B])
                     > initial_duration(_test_metrics[call'.test])
              /\ TargetNow(B) >= _context.min_test_execution_count
              => TargetNow(B)' > TargetNow(B)]_vars

\* The 1 ms test got the cap first, and the 100 ms test after it gets 40,
\* what the whole budget of 4 s gives it in either order.
C20_SlowerTestGetsTheSame ==
    /\ TargetComputed("bb")
    /\ "a" \in DOMAIN _test_metrics
    /\ mode = "new"
    /\ Len(_context.existing_test_names) = 1
    /\ now = 0
    /\ _test_metrics["a"].scheduled_rerun_count
           = _context.max_test_execution_count
    /\ initial_duration(_test_metrics["a"]) = MillisecondUs
    /\ initial_duration(_test_metrics["bb"]) = 100 * MillisecondUs
    /\ _test_metrics["bb"].deadline = 4000 * MillisecondUs
    /\ call.result = 40

-----------------------------------------------------------------------------
(* The report of the detector (SpecAllocation, SpecLastRerun).             *)

\* C21, as the specification states it: the budget usage make_report gives
\* never exceeds 100 %: the sum of total_duration over the tracked tests is
\* at most the budget duration.
C21_UsageWithinBudget ==
    DOMAIN _test_metrics # {} =>
        make_report.Used[1] <= make_report.Used[2]

\* Two tests are tracked, neither has a target yet, and the report gives a
\* usage of twice the budget: their initial executions alone.
C21_UsageOverBudget ==
    /\ DOMAIN _test_metrics = {"bb", "ccc"}
    /\ \A test \in DOMAIN _test_metrics :
           /\ _test_metrics[test].rerun_count = 1
           /\ ~_test_metrics[test].is_processed
    /\ ~make_report_raises
    /\ make_report.Used[1] = 2 * make_report.Used[2]

\* The lines of the report about the test.
LinesAbout(test) == {l \in make_report.Active : l.test = test}

C23_NotFullyExecutedIsReported ==
    \A test \in DOMAIN _test_metrics :
        LET metrics == _test_metrics[test]
        IN /\ metrics.scheduled_rerun_count # 0
           /\ metrics.rerun_count < metrics.scheduled_rerun_count + 1
           => \A l \in LinesAbout(test) : l.line = "has been tested only"

\* The test has a target of 2 and two call-phase reports, the initial
\* execution and one rerun: this is not its last rerun, and the report says
\* that it has been tested 2 times.
C23_ShortByOneReportedAsTested ==
    /\ call.op = "is_last_rerun_for_test"
    /\ call.test \in DOMAIN _test_metrics
    /\ ~call.result
    /\ _test_metrics[call.test].scheduled_rerun_count = 2
    /\ _test_metrics[call.test].rerun_count = 2
    /\ \E l \in make_report.Active :
           l.test = call.test /\ l.line = "has been tested" /\ l.count = 2

-----------------------------------------------------------------------------
(* The retry cap (SpecInsights).                                           *)

\* C24, as the specification states it: run_flaky_detection retries no test
\* more than _MAX_TEST_RETRY_COUNT times, and a new test whose retries the
\* budget has not stopped has run _MAX_TEST_RETRY_COUNT + 1 times once the
\* loop is over.
C24_AtMostMaxRetries ==
    \A test \in Range(session_items) :
        /\ Get(_new_test_retry_count_by_name, test, 0) <= _MAX_TEST_RETRY_COUNT
        /\ executions[test] <= _MAX_TEST_RETRY_COUNT + 1
        /\ pc = "done" /\ now_ms <= budget_deadline /\ test \in Range(new_items)
           => executions[test] = _MAX_TEST_RETRY_COUNT + 1

\* The loop is over within the budget, and a new test has been retried 1001
\* times: it has run 1002 times.
C24_RetriedOnceMore ==
    /\ pc = "done"
    /\ now_ms <= budget_deadline
    /\ \E test \in Range(new_items) :
           /\ Get(_new_test_retry_count_by_name, test, 0)
                  = _MAX_TEST_RETRY_COUNT + 1
           /\ executions[test] = _MAX_TEST_RETRY_COUNT + 2

-----------------------------------------------------------------------------
(* The duration behind a target (SpecLastRerun).                           *)

\* The share get_rerun_count_for_test gives the test.
BudgetPerTest(test) ==
    RoundHalfEven(_get_duration_before_test_deadline(test),
                  _count_remaining_tests)

\* C25, as the specification states it: the target of a test is computed
\* from the first duration of its call phase; the durations of its setup and
\* of its teardown do not change it.
C25_TargetFromCallDuration ==
    [][TargetStep =>
          call'.result =
              _get_normalized_rerun_count(
                  BudgetPerTest(call'.test),
                  _test_metrics[call'.test].initial_call_duration)]_vars

\* C25, amended: the target of a test is computed from the sum of the first
\* durations that are not zero of its setup, of its call and of its teardown;
\* a recorded report sets the initial duration of its phase when that is
\* still zero, leaves the two others, and adds its duration to
\* total_duration.
C25_TargetFromThreePhases ==
    /\ [][TargetStep =>
              LET metrics == _test_metrics[call'.test]
              IN call'.result =
                     _get_normalized_rerun_count(
                         BudgetPerTest(call'.test),
                         metrics.initial_setup_duration
                             + metrics.initial_call_duration
                             + metrics.initial_teardown_duration)]_vars
    /\ [][call'.op = "try_fill_metrics_from_report" /\ call'.result =>
              LET report == call'.report
                  before == IF report.nodeid \in DOMAIN _test_metrics
                            THEN _test_metrics[report.nodeid]
                            ELSE DefaultTestMetrics
                  after == _test_metrics'[report.nodeid]
                  First(phase, old) ==
                      IF report.when = phase /\ old = 0
                      THEN report.duration ELSE old
              IN /\ after.initial_setup_duration
                        = First("setup", before.initial_setup_duration)
                 /\ after.initial_call_duration
                        = First("call", before.initial_call_duration)
                 /\ after.initial_teardown_duration
                        = First("teardown", before.initial_teardown_duration)
                 /\ after.total_duration
                        = before.total_duration + report.duration]_vars

\* The test is too slow with its setup, and would not be with its call
\* alone: its share is one time step, its setup and its call take one each,
\* and it gets 0 with a minimum of 1.
C25_Witness ==
    /\ TargetComputed("bb")
    /\ mode = "unhealthy"
    /\ _context.min_test_execution_count = 1
    /\ _test_metrics["bb"].initial_setup_duration = TimeStep
    /\ _test_metrics["bb"].initial_call_duration = TimeStep
    /\ _test_metrics["bb"].deadline = now + 2 * TimeStep
    /\ Len(_context.unhealthy_test_names) = 2
    /\ call.result = 0

-----------------------------------------------------------------------------
(* The life of the metrics (SpecLastRerun).                                *)

\* C26: once a test is tracked its metrics are never removed, is_processed
\* never goes back to false, and rerun_count and total_duration never
\* decrease.
C26_MetricsOnlyMoveForward ==
    [][/\ DOMAIN _test_metrics \subseteq DOMAIN _test_metrics'
       /\ \A test \in DOMAIN _test_metrics :
              LET before == _test_metrics[test]
                  after == _test_metrics'[test]
              IN /\ before.is_processed => after.is_processed
                 /\ before.rerun_count <= after.rerun_count
                 /\ before.total_duration <= after.total_duration]_vars

\* A report of a rerun has just been recorded for a test whose target was
\* computed before: the test is processed, with two call-phase reports and
\* two time steps of total duration.
C26_Witness ==
    /\ call.op = "try_fill_metrics_from_report"
    /\ call.result
    /\ _test_metrics[call.test].is_processed
    /\ _test_metrics[call.test].scheduled_rerun_count >= 1
    /\ _test_metrics[call.test].rerun_count = 2
    /\ _test_metrics[call.test].total_duration = 2 * TimeStep

\* C27 helpers: a call-phase report with outcome failed has been sent
FailedCallReportSeen ==
    \E i \in 1..Len(logreports) :
        logreports[i].when = "call" /\ logreports[i].outcome = "failed"

\* C27: when the session finishes, the status of the session span is ERROR
\* if and only if at least one call-phase report of the session had outcome
\* failed, and OK otherwise; once a failure has been seen, a later passing
\* report never resets it.
C27_SessionStatusIsErrorIffCallFailed ==
    /\ [](session_span.ended =>
             session_span.status =
                 IF FailedCallReportSeen THEN "ERROR" ELSE "OK")
    /\ [][session_phase = "running" /\ has_error => has_error']_vars

\* a failed call report, then a passed one, and the session ends in ERROR
C27_Witness ==
    /\ session_span.ended
    /\ session_span.status = "ERROR"
    /\ Len(logreports) = 2
    /\ logreports[1] = [when |-> "call", outcome |-> "failed"]
    /\ logreports[2] = [when |-> "call", outcome |-> "passed"]

\* C28: once the target of a test has been computed (is_processed is true),
\* a later get_rerun_count_for_test call for the same test does not recompute
\* it: scheduled_rerun_count keeps the value of the first computation.
C28_TargetComputedOnce ==
    [][\A test \in DOMAIN _test_metrics :
           _test_metrics[test].is_processed =>
               _test_metrics'[test].scheduled_rerun_count
                   = _test_metrics[test].scheduled_rerun_count]_vars

\* the state after a second call for "bb": the first call, made before the
\* deadline was set, scheduled 0 reruns and this one schedules 3
C28_TargetRecomputed ==
    /\ call.op = "get_rerun_count_for_test"
    /\ call.test = "bb"
    /\ call.result = 3
    /\ "bb" \in DOMAIN _test_metrics
    /\ _test_metrics["bb"].is_processed
    /\ _test_metrics["bb"].scheduled_rerun_count = 3
    /\ _test_metrics["bb"].prevented_timeout
    /\ _test_metrics["bb"].rerun_count = 1
    /\ now = 0

\* C29: the duration remaining before the deadline of a test is exactly
\* deadline - now when the deadline is in the future, and zero when the
\* deadline has passed or none is set; it is never negative.
C29_DurationBeforeDeadline ==
    \A test \in DOMAIN _test_metrics :
        LET deadline == _test_metrics[test].deadline
            duration == _get_duration_before_test_deadline(test)
        IN /\ duration >= 0
           /\ deadline = None => duration = 0
           /\ deadline # None /\ deadline > now => duration = deadline - now
           /\ deadline # None /\ deadline <= now => duration = 0

\* "bb" has 1300 us left before its deadline, the deadline of "ccc" passed
\* 50 us ago
C29_Witness ==
    /\ DOMAIN _test_metrics = {"bb", "ccc"}
    /\ _test_metrics["bb"].deadline = now + 1300
    /\ _get_duration_before_test_deadline("bb") = 1300
    /\ _test_metrics["ccc"].deadline # None
    /\ _test_metrics["ccc"].deadline = now - 50
    /\ _get_duration_before_test_deadline("ccc") = 0

\* C30 helpers: the nodes of the stack other than the item
OtherStacked(item) == {e \in Range(stack) : e.node # item}

ChainIndex(node) == CHOOSE i \in 1..Len(Chain) : Chain[i] = node

InChainOrder(d) ==
    \A i, j \in 1..Len(d) :
        i < j => ChainIndex(d[i].node) < ChainIndex(d[j].node)

\* C31: a suspend/restore cycle preserves the order of the setup stack: after
\* restore_item_finalizers the entries are in the same outermost-to-innermost
\* order (session, module, class, then the item if still present) as before
\* the suspend, so that teardown pops the scopes innermost first.
C31_RestoreKeepsStackOrder ==
    call.op = "restore_item_finalizers" => InChainOrder(stack)

\* setup, suspend, restore: the item now comes first and the class last, so
\* that popitem() tears the class down before the item
C31_ItemFirstAfterRestore ==
    /\ call.op = "restore_item_finalizers"
    /\ call.test = Item
    /\ KeyList(stack) = <<Item, "session", "module", "class">>
    /\ _suspended_item_finalizers = <<>>

\* C32 helpers: the entries of a list that are session items, in their order
SessionEntries(names, items) == SelectSeq(names, LAMBDA test : test \in items)

\* C32: filter_context_tests_with_session only removes entries: afterwards
\* existing_test_names and unhealthy_test_names are exactly the original
\* entries that are session items, in their original order; applying it twice
\* with the same items equals applying it once; every other field of the
\* context and all the test metrics are unchanged.
C32_FilterKeepsSessionEntries ==
    [][call'.op = "filter_context_tests_with_session" =>
          /\ _context'.existing_test_names
                 = SessionEntries(_context.existing_test_names, call'.items)
          /\ _context'.unhealthy_test_names
                 = SessionEntries(_context.unhealthy_test_names, call'.items)
          /\ _context' = [_context EXCEPT
                 !.existing_test_names = _context'.existing_test_names,
                 !.unhealthy_test_names = _context'.unhealthy_test_names]
          /\ _test_metrics' = _test_metrics
          /\ (call.op = "filter_context_tests_with_session"
                  /\ call.items = call'.items
              => _context' = _context)]_vars

\* the session holds "a" and "ccc": "a" stays in the baseline and "ccc" in
\* the unhealthy tests, "bb" has left them and its metrics are still there
C32_Witness ==
    /\ call.op = "filter_context_tests_with_session"
    /\ call.items = {"a", "ccc"}
    /\ _context.existing_test_names = <<"a">>
    /\ _context.unhealthy_test_names = <<"ccc">>
    /\ "bb" \in DOMAIN _test_metrics

-----------------------------------------------------------------------------
(* The rounds of the retry loop (SpecInsights).                            *)

RetryCount(test) == Get(_new_test_retry_count_by_name, test, 0)

\* C33: run_flaky_detection retries the new tests round-robin: each round
\* executes every still-eligible new test exactly once (between two rounds
\* the new tests have the same retry count, and within a round the tests
\* already executed are one ahead), so that at every moment of the loop the
\* retry counts of any two new tests differ by at most one.
C33_RoundRobin ==
    /\ pc \in {"while", "for", "done"} =>
           \A t1, t2 \in Range(new_items) :
               /\ RetryCount(t1) - RetryCount(t2) <= 1
               /\ executions[t1] - executions[t2] <= 1
    /\ pc \in {"while", "done"} =>
           \A t1, t2 \in Range(new_items) : RetryCount(t1) = RetryCount(t2)
    /\ pc = "for" =>
           \A i, j \in 1..Len(items_to_retry) :
               i < next_item /\ j >= next_item =>
                   RetryCount(items_to_retry[i]) = RetryCount(items_to_retry[j]) + 1

\* in the middle of the second round of two new tests: "bb" has been
\* retried twice, "ccc" once
C33_Witness ==
    /\ pc = "for"
    /\ new_items = <<"bb", "ccc">>
    /\ next_item = 2
    /\ RetryCount("bb") = 2
    /\ RetryCount("ccc") = 1
    /\ executions["bb"] = 3

-----------------------------------------------------------------------------
(* The end of the retry loop (SpecInsightsFair).                           *)

\* C34 helpers: the loop is over
LoopOver == pc = "done"

\* C34: run_flaky_detection terminates for every set of new tests, provided
\* each test execution returns: the loop ends when the deadline has passed or
\* when every new test has reached the retry cap, and it performs no retry at
\* all when flaky detection is inactive or there is no new test.
C34_RetryLoopTerminates ==
    /\ <>LoopOver
    /\ [](LoopOver /\ _is_flaky_detection_active /\ new_items # <<>> =>
              \/ now_ms > budget_deadline
              \/ \A test \in Range(new_items) :
                     RetryCount(test) >= _MAX_TEST_RETRY_COUNT)
    /\ [](~_is_flaky_detection_active \/ (pc # "session" /\ new_items = <<>>) =>
              \A test \in Range(session_items) :
                  RetryCount(test) = 0 /\ executions[test] <= 1)

\* the loop is over within the budget: the cap has stopped the retries of a
\* test that takes no time
C34_Witness ==
    /\ LoopOver
    /\ _is_flaky_detection_active
    /\ new_items # <<>>
    /\ now_ms <= budget_deadline
    /\ \A test \in Range(new_items) : RetryCount(test) >= _MAX_TEST_RETRY_COUNT

-----------------------------------------------------------------------------
(* The two modes (SpecModes).                                              *)

\* C35 helpers: the tracking decision for a report of the test
TrackingDecision(test) == IsEligible(test) /\ ~IsOverLength(test)

\* the targets get_rerun_count_for_test would give the tracked tests now
TargetsNow == [test \in DOMAIN _test_metrics |-> TargetNow(test)]

\* C35: the two modes are independent: for two contexts that differ only in
\* budget_ratio_for_unhealthy_tests and unhealthy_test_names, a detector in
\* mode "new" makes the same tracking decisions and computes the same budget
\* and targets on the same sequence of reports; a detector in mode
\* "unhealthy" is unaffected by budget_ratio_for_new_tests.  Stated on the
\* step that exchanges the context for the other one of such a pair, after
\* any sequence of reports and calls: the decisions, the budget, the count of
\* remaining tests and the targets are what they were, and the step that
\* records a report or computes a target returns what they say.
C35_ModesAreIndependent ==
    /\ [][_context' # _context =>
             /\ \A test \in Tests : TrackingDecision(test)' = TrackingDecision(test)
             /\ _get_budget_duration' = _get_budget_duration
             /\ _count_remaining_tests' = _count_remaining_tests
             /\ TargetsNow' = TargetsNow]_vars
    /\ [][_context' = _context /\ call'.op = "try_fill_metrics_from_report" =>
             call'.result = TrackingDecision(call'.test)]_vars
    /\ [][_context' = _context /\ TargetStep =>
             call'.result = TargetNow(call'.test)]_vars

\* a detector in mode "new" with a whole ratio and one test for the other
\* mode: the budget is the half of the baseline, 500 microseconds, and "bb",
\* which takes 500, has got a target of 1
C35_Witness ==
    /\ mode = "new"
    /\ _context.budget_ratio_for_unhealthy_tests = <<1, 1>>
    /\ _context.unhealthy_test_names = <<"bb">>
    /\ _global_deadline = 500
    /\ now = 0
    /\ "bb" \in DOMAIN _test_metrics
    /\ _test_metrics["bb"].scheduled_rerun_count = 1
    /\ TargetsNow["bb"] = 1

-----------------------------------------------------------------------------
(* The divisions of the target (SpecRemaining).                            *)

\* C36 helpers: the tests of the mode, and those whose target is computed
ModeTests ==
    IF mode = "new" THEN _context.existing_test_names
    ELSE _context.unhealthy_test_names

Processed == {t \in DOMAIN _test_metrics : _test_metrics[t].is_processed}

\* C36: get_rerun_count_for_test never divides by zero and returns a target
\* for every tracked test in every reachable state: the count of remaining
\* tests is always at least 1, even when every test of the context is already
\* processed or the list of the context is empty, and a zero initial
\* duration is handled without division (the target is then the maximum,
\* when the maximum reaches the minimum).
C36_NoDivisionByZero ==
    /\ _count_remaining_tests >= 1
    /\ \A test \in DOMAIN _test_metrics :
           /\ TargetNow(test) \in 0.._context.max_test_execution_count
           /\ initial_duration(_test_metrics[test]) = 0 =>
                  TargetNow(test) =
                      IF _context.max_test_execution_count
                             < _context.min_test_execution_count
                      THEN 0 ELSE _context.max_test_execution_count
    /\ (call.op = "get_rerun_count_for_test" /\ call.test \in DOMAIN _test_metrics)
           => /\ call.result \in 0.._context.max_test_execution_count
              /\ _test_metrics[call.test].scheduled_rerun_count = call.result

\* the filter has emptied the list of the unhealthy tests, "bb", tracked
\* before, takes no time, and its target has been computed: the maximum
C36_Witness ==
    /\ mode = "unhealthy"
    /\ ModeTests = <<>>
    /\ call.op = "get_rerun_count_for_test"
    /\ call.test = "bb"
    /\ "bb" \in DOMAIN _test_metrics
    /\ initial_duration(_test_metrics["bb"]) = 0
    /\ call.result = _context.max_test_execution_count
    /\ Len(ModeTests) - Cardinality(Processed) = -1

-----------------------------------------------------------------------------
(* The report under a budget of zero (SpecFiltering).                      *)

\* C37, as the specification states it: make_report completes without error
\* in every reachable state, including when tracked tests exist and the
\* computed budget duration is zero (the ratio times the projected duration
\* of the suite is 0 and min_budget_duration_ms is 0).
C37_MakeReportCompletes == ~make_report_raises

\* Mode "unhealthy": the session holds none of the baseline tests, so that
\* the filter leaves a projected duration of zero, min_budget_duration_ms is
\* 0, and an unhealthy test is tracked: make_report divides by zero.
C37_ZeroBudgetWithTrackedTests ==
    /\ mode = "unhealthy"
    /\ _context.existing_test_names = <<>>
    /\ _context.min_budget_duration_ms = 0
    /\ _get_budget_duration = 0
    /\ DOMAIN _test_metrics = {"bb"}
    /\ make_report_raises

-----------------------------------------------------------------------------
(* The flag of a prevented timeout (SpecAllocation).                       *)

\* C38, as the specification states it: in every reachable state, a test
\* whose prevented_timeout flag is true (and which is therefore listed in the
\* 'Reduced reruns' section of the report) has a deadline that is the
\* timeout-derived one, strictly earlier than the global deadline, when there
\* is one; a later set_test_deadline call that puts the test back on the
\* global deadline does not leave the flag set.
C38_FlagMeansTimeoutDeadline ==
    \A test \in DOMAIN _test_metrics :
        _test_metrics[test].prevented_timeout =>
            /\ test \in make_report.Reduced
            /\ _test_metrics[test].deadline # None
            /\ _global_deadline # None =>
                   _test_metrics[test].deadline < _global_deadline

\* set_test_deadline has just been called for "bb" with no timeout: the test
\* is on the global deadline again, the flag of an earlier call is still
\* set, and the report lists the test.
C38_FlagLeftOnGlobalDeadline ==
    /\ call.op = "set_test_deadline"
    /\ call.test = "bb"
    /\ call.timeout = None
    /\ "bb" \in DOMAIN _test_metrics
    /\ _global_deadline # None
    /\ _test_metrics["bb"].deadline = _global_deadline
    /\ _test_metrics["bb"].prevented_timeout
    /\ "bb" \in make_report.Reduced

-----------------------------------------------------------------------------
(* The tests reported as too slow (SpecAllocation).                        *)

\* C39, as the specification states it: a tracked test is reported as 'too
\* slow to be tested at least min times within the budget' only if its target
\* was actually computed and came out as zero; a tracked test whose target
\* was never computed (is_processed false) is not reported as too slow.
C39_TooSlowOnlyWhenComputed ==
    \A l \in make_report.Active :
        l.line = "is too slow" =>
            /\ _test_metrics[l.test].is_processed
            /\ _test_metrics[l.test].scheduled_rerun_count = 0

\* "bb" has been reported once and no target has been computed for it: the
\* report says it is too slow
C39_TooSlowWithoutTarget ==
    /\ call.op = "try_fill_metrics_from_report"
    /\ call.test = "bb"
    /\ "bb" \in DOMAIN _test_metrics
    /\ ~_test_metrics["bb"].is_processed
    /\ ~make_report_raises
    /\ [test |-> "bb", line |-> "is too slow",
        count |-> _context.min_test_execution_count] \in make_report.Active

====
